---------------------------- MODULE Spec2Model ----------------------------
(***************************************************************************)
(* Orchestration core of the multi-agent website analysis system:          *)
(* CrewOrchestrator (core/orchestrator.py) with its RateLimiter and        *)
(* CacheManager, and the custom analysis of the HTTP boundary              *)
(* (api/main.py, _run_custom_analysis).                                    *)
(*                                                                         *)
(* Calls are made one after the other on one orchestrator.  Time is kept   *)
(* relative: where the code stores time.time() and later compares          *)
(* time.time() - stamp with a TTL or a window, the model stores the age    *)
(* time.time() - stamp itself and the Tick action lets every age grow,     *)
(* capped where the comparison no longer changes.  The 'timestamp' field   *)
(* of a result is the number of the call that made it.                     *)
(***************************************************************************)
EXTENDS Integers, Sequences, FiniteSets, TLC

\* ------------------------------------------------------------- bounds
\* number of analysis calls made on the orchestrator
MaxCalls == 2
\* CacheManager(ttl): seconds an entry lives (3600 in the code, scaled)
ttl == 2
\* RateLimiter(time_window): seconds (60 in the code, scaled)
time_window == 2
\* RateLimiter(max_requests): config.rate_limit_per_minute (60 by default, scaled)
max_requests == 1

\* MemoryCacheBackend(max_size): entries held (1000 in the code, scaled)
max_size == 2
\* seconds the clock of the MemoryCacheBackend runs
MaxTime == 2
\* calls made on a component exercised by itself in one behaviour
MaxOps == 4
\* requests the API serves in one behaviour
MaxRequests == 2

\* SecurityConfig.rate_limit_window: seconds (60 in the code, scaled)
rate_limit_window == time_window
\* SecurityConfig.max_requests_per_window (100 in the code, scaled)
max_requests_per_window == max_requests + 1
\* security.RateLimiter._cleanup_interval: seconds (300 in the code, scaled
\* to lie between one window and two, where the cleanup can follow a
\* pruning and still find something to drop)
_cleanup_interval == rate_limit_window + 1

\* ---------------------------------------------------- program constants
\* stop_after_attempt(3) of every retry-wrapped stage
MaxAttempts == 3

\* ------------------------------------------------------------- inputs
Urls == {"u1", "u2"}
Kinds == {"full", "quick", "custom"}
Tools == {"direct", "crewai"}
Agents == {"classifier", "summary", "ux_reviewer", "design_advisor"}
Stages == {"scrape"} \cup Agents
WebsiteTypes == {"landing_page", "blog"}

\* AgentsConfig: which agents a custom analysis runs
AgentsConfigs == [Agents -> BOOLEAN]
DefaultConfig == [a \in Agents |-> TRUE]

VARIABLES
  tool,            \* what create_scraping_tool() returned
  cache,           \* CacheManager.cache: key -> [result, age]
  requests,        \* RateLimiter.requests: key -> ages of the recorded calls
  stats,           \* CrewOrchestrator.stats
  ncalls,          \* calls started so far
  pc,              \* position of the running call
  kind, url, use_cache, agents_config,   \* arguments of the running call
  website_data,    \* result of the scrape stage
  results,         \* agent name -> its result, None when absent
  tasks,           \* the coroutines handed to asyncio.gather, in order
  tstate,          \* stage -> "new" | "sleeping" | "returned" | "raised"
  attempts,        \* stage -> attempt number of its retry loop while it runs
  sleep,           \* seconds left of wait_for_slot's asyncio.sleep(1)
  ret,             \* what the call returned
  prev,            \* the previous call, when it was analyze_website with
                   \* use_cache and returned a record: its arguments and the record
  disturbed,       \* since that call returned, the cache was cleared or the
                   \* entry under its key expired
  sec_requests,    \* security.RateLimiter._requests: key -> ages of the recorded calls
  sec_last_cleanup, \* security.RateLimiter: age of _last_cleanup
  mem,             \* MemoryCacheBackend.cache: the entries in insertion order
  now,             \* the clock read by the MemoryCacheBackend
  last,            \* the last call made on a component by itself, with its result
  runs,            \* the concurrent runs inside wait_for_slot: run -> position
  frames,          \* request thread -> its position and local values inside the orchestrator
  cm_stats,        \* cache_manager.CacheManager.stats
  tally,           \* the calls made on cache_manager.CacheManager since the last
                   \* successful clear, counted by outcome
  files,           \* FileCacheBackend: the entries in the cache directory
  redis,           \* RedisCacheBackend: the keys held by the server
  api_cache,       \* api.main.api_cache: the cached responses
  response         \* the response to the last HTTP request

vars == <<tool, cache, requests, stats, ncalls, pc, kind, url, use_cache,
          agents_config, website_data, results, tasks, tstate, attempts,
          sleep, ret, prev, disturbed,
          sec_requests, sec_last_cleanup, mem, now, last, runs,
          frames, cm_stats, tally, files, redis, api_cache, response>>

\* the threads of the server, the cache manager with its backends, the API
comp == <<frames, cm_stats, tally, files, redis, api_cache, response>>

\* the state of the components exercised by themselves
lib == <<sec_requests, sec_last_cleanup, mem, now, last, runs, comp>>

\* ------------------------------------------------------- Python values
None == [none |-> TRUE]
IsNone(r) == r = None
\* truth value of a dict or None
Truthy(r) == ~IsNone(r) /\ DOMAIN r # {}
\* dict.get(key, default)
Get(r, key, default) == IF key \in DOMAIN r THEN r[key] ELSE default
\* key in dict
Has(r, key) == ~IsNone(r) /\ key \in DOMAIN r

Min(a, b) == IF a < b THEN a ELSE b

RECURSIVE SeqFilterLt(_, _)
\* [x for x in s if x < bound]
SeqFilterLt(s, bound) ==
  IF s = <<>> THEN <<>>
  ELSE IF Head(s) < bound THEN <<Head(s)>> \o SeqFilterLt(Tail(s), bound)
       ELSE SeqFilterLt(Tail(s), bound)


\* ---------------------------------------------------------- CacheManager
\* _generate_key that leaves the analysis type out
_generate_keyUrlOnly(u, analysis_type) == u

\* md5(f"{url}:{analysis_type}"): the digest is taken to be collision-free,
\* so the key is the digested text
_generate_key(u, analysis_type) == u \o ":" \o analysis_type

\* CacheGet that never finds an entry
CacheGetMiss(c, u, analysis_type) == [value |-> None, cache |-> c]

\* CacheManager.get: the value returned and the cache it leaves behind
CacheGet(c, u, analysis_type) ==
  LET key == _generate_key(u, analysis_type) IN
  IF key \in DOMAIN c
  THEN IF c[key].age < ttl
       THEN [value |-> c[key].result, cache |-> c]
       ELSE [value |-> None,
             cache |-> [k \in DOMAIN c \ {key} |-> c[k]]]
  ELSE [value |-> None, cache |-> c]

\* CacheSet that keeps the entry a key already has
CacheSetKeepFirst(c, u, result, analysis_type) ==
  LET key == _generate_key(u, analysis_type) IN
  [k \in DOMAIN c \cup {key} |->
     IF k \in DOMAIN c THEN c[k] ELSE [result |-> result, age |-> 0]]

\* CacheSet that stores nothing
CacheSetDropped(c, u, result, analysis_type) == c

\* CacheManager.set
CacheSet(c, u, result, analysis_type) ==
  LET key == _generate_key(u, analysis_type) IN
  [k \in DOMAIN c \cup {key} |->
     IF k = key THEN [result |-> result, age |-> 0] ELSE c[k]]

\* acquire that allows every call
acquireAlways(reqs, key) ==
  LET old == IF key \in DOMAIN reqs THEN reqs[key] ELSE <<>>
  IN [allowed |-> TRUE,
      requests |-> [k \in DOMAIN reqs \cup {key} |-> IF k = key THEN Append(old, 0) ELSE reqs[k]]]

\* acquire that counts the requests of the window but stores them all
acquireNoPruning(reqs, key) ==
  LET old == IF key \in DOMAIN reqs THEN reqs[key] ELSE <<>>
      allowed == Len(SeqFilterLt(old, time_window)) < max_requests
      new == IF allowed THEN Append(old, 0) ELSE old
  IN [allowed |-> allowed,
      requests |-> [k \in DOMAIN reqs \cup {key} |-> IF k = key THEN new ELSE reqs[k]]]

\* ----------------------------------------------------------- RateLimiter
\* RateLimiter.acquire: whether the call is allowed, and the requests it leaves
acquire(reqs, key) ==
  LET old == IF key \in DOMAIN reqs THEN reqs[key] ELSE <<>>
      kept == SeqFilterLt(old, time_window)
      allowed == Len(kept) < max_requests
      new == IF allowed THEN Append(kept, 0) ELSE kept
  IN [allowed |-> allowed,
      requests |-> [k \in DOMAIN reqs \cup {key} |-> IF k = key THEN new ELSE reqs[k]]]

\* ----------------------------------------------------------- agent results
ClassifierSuccess(t) == [success |-> TRUE, classification |-> [type |-> t]]
AgentSuccess(a) == [success |-> TRUE, payload |-> a]
\* the Failure an agent returns after its own attempts
AgentFailure(a) == [success |-> FALSE, error |-> a \o " failed", attempts |-> 3]
\* {'success': False, 'error': str(exception)} made from a task's exception
ExceptionFailure(a) == [success |-> FALSE, error |-> "RetryError " \o a]

\* what one attempt of an agent stage can do: return a dict, or raise
Returns(a) ==
  IF a = "classifier"
  THEN {ClassifierSuccess(t) : t \in WebsiteTypes} \cup {AgentFailure(a)}
  ELSE {AgentSuccess(a), AgentFailure(a)}

\* IsLandingPage without the test of the type
IsLandingPageAnyType(classification_result) ==
  /\ Truthy(classification_result)
  /\ Get(classification_result, "success", FALSE) = TRUE

\* classification_result and classification_result.get('success') and
\* classification_result.get('classification', {}).get('type') == 'landing_page'
IsLandingPage(classification_result) ==
  /\ Truthy(classification_result)
  /\ Get(classification_result, "success", FALSE) = TRUE
  /\ Get(Get(classification_result, "classification", <<>>), "type", "") = "landing_page"

\* the same chain as a Python value (and returns its first falsy operand)
IsLandingPageValue(classification_result) ==
  IF ~Truthy(classification_result) THEN "None"
  ELSE IF ~Has(classification_result, "success") THEN "None"
  ELSE IF classification_result.success = FALSE THEN "False"
  ELSE IF IsLandingPage(classification_result) THEN "True" ELSE "False"

\* ------------------------------------------------------ _aggregate_results
Successful(r) == Truthy(r) /\ Get(r, "success", FALSE) = TRUE
NotNone(r) == ~IsNone(r)
FailedResult(r) == Truthy(r) /\ ~(Get(r, "success", FALSE) = TRUE)

\* len([r for r in all_results if r and r.get('success', False)])
NumSuccessful(all_results) == Cardinality({i \in DOMAIN all_results : Successful(all_results[i])})
\* len([r for r in all_results if r is not None])
NumNotNone(all_results) == Cardinality({i \in DOMAIN all_results : NotNone(all_results[i])})
\* len([r for r in all_results if r and not r.get('success', False)])
NumFailed(all_results) == Cardinality({i \in DOMAIN all_results : FailedResult(all_results[i])})
\* any(all_results)
AnyTruthy(all_results) == \E i \in DOMAIN all_results : Truthy(all_results[i])

RECURSIVE GCD(_, _)
GCD(a, b) == IF b = 0 THEN a ELSE GCD(b, a % b)

\* a / b of Python: the quotient in lowest terms, or ZeroDivisionError
Div(a, b) ==
  IF b = 0 THEN [raised |-> "ZeroDivisionError"]
  ELSE IF a = 0 THEN [num |-> 0, den |-> 1]
  ELSE [num |-> a \div GCD(a, b), den |-> b \div GCD(a, b)]

\* Status with the successes compared with len(all_results)
StatusCountsAbsent(all_results) ==
  IF NumSuccessful(all_results) = 0 THEN "failed"
  ELSE IF NumSuccessful(all_results) = Len(all_results) THEN "completed"
       ELSE "partial"

\* the status of lines 442-447
Status(all_results) ==
  IF NumSuccessful(all_results) = 0 THEN "failed"
  ELSE IF NumSuccessful(all_results) = NumNotNone(all_results)
       THEN "completed"
       ELSE "partial"

\* SuccessRate without the guard of the division
SuccessRateUnguarded(all_results) ==
  Div(NumSuccessful(all_results), NumNotNone(all_results))

\* the success_rate of line 460
SuccessRate(all_results) ==
  IF AnyTruthy(all_results)
  THEN Div(NumSuccessful(all_results), NumNotNone(all_results))
  ELSE [num |-> 0, den |-> 1]

\* res: the four agent results by name; stamp: time.time()
_aggregate_results(u, data, res, stamp) ==
  LET all_results == <<res.classifier, res.summary, res.ux_reviewer, res.design_advisor>>
  IN [url |-> u,
      website_data |-> data,
      classification |-> res.classifier,
      summary |-> res.summary,
      ux_review |-> res.ux_reviewer,
      design_advice |-> res.design_advisor,
      status |-> Status(all_results),
      timestamp |-> stamp,
      analysis_type |-> "full",
      success_rate |-> SuccessRate(all_results),
      metadata |-> [agents_used |-> NumNotNone(all_results),
                    successful_agents |-> NumSuccessful(all_results),
                    failed_agents |-> NumFailed(all_results),
                    is_landing_page |-> IsLandingPageValue(res.classifier)]]


\* ------------------------------------------------------------ the scraper
\* what one call of the scraping tool can do: the page is fetched, the fetch
\* fails, or the tool raises
ScrapeOutcomes == {"ok", "fetch_failed", "raise"}

\* WebScrapingTool.scrape_website: page data, or {'url', 'error'}
scrape_website(u, outcome) ==
  IF outcome = "ok"
  THEN [url |-> u, status_code |-> 200, title |-> "t", content |-> "text"]
  ELSE [url |-> u, error |-> "Failed to scrape website: timeout"]

\* scrape_website_tool, the func of the CrewAI Tool: always a string
scrape_website_tool(u, outcome) ==
  IF Has(scrape_website(u, outcome), "error")
  THEN "Error scraping " \o u \o ": " \o scrape_website(u, outcome).error
  ELSE "Website Analysis for: " \o u

\* the body of _scrape_website_with_retry for an attempt that does not raise
ScrapeResult(tl, u, outcome) ==
  IF tl = "crewai"
  THEN [url |-> u, content |-> scrape_website_tool(u, outcome),
        title |-> "", meta_description |-> ""]
  ELSE scrape_website(u, outcome)

\* ------------------------------------------------------ top-level errors
ErrorPrefix(k) ==
  CASE k = "full" -> "Analysis failed: "
    [] k = "quick" -> "Quick analysis failed: "
    [] OTHER -> "Custom analysis failed: "

\* the dict an analysis returns instead of a record
ErrorResult(k, u, msg, stamp) ==
  IF k = "custom" THEN [error |-> msg]
  ELSE [error |-> msg, url |-> u, status |-> "failed", timestamp |-> stamp]

\* quick_result of get_quick_analysis
QuickResult(u, data, res, stamp) ==
  [url |-> u, website_data |-> data, classification |-> res.classifier,
   summary |-> res.summary, status |-> "completed", timestamp |-> stamp,
   analysis_type |-> "quick"]

\* the landing-page condition of _run_custom_analysis:
\* results.get('classification', {}) and the two .get()s on it
CustomIsLandingPage(res) ==
  LET classification == IF IsNone(res.classifier) THEN <<>> ELSE res.classifier
  IN /\ Get(classification, "success", FALSE) = TRUE
     /\ Get(Get(classification, "classification", <<>>), "type", "") = "landing_page"

\* the tasks list of _run_custom_analysis
CustomTasks(cfg, res) ==
  (IF cfg.summary THEN <<"summary">> ELSE <<>>)
  \o (IF cfg.ux_reviewer THEN <<"ux_reviewer">> ELSE <<>>)
  \o (IF cfg.design_advisor /\ CustomIsLandingPage(res)
      THEN <<"design_advisor">> ELSE <<>>)

\* FullTasks with the design advice gathered with the other two
FullTasksWithDesign == <<"summary", "ux_reviewer", "design_advisor">>

\* the tasks created for asyncio.gather by analyze_website
FullTasks == <<"summary", "ux_reviewer">>
\* the tasks created for asyncio.gather by get_quick_analysis
QuickTasks == <<"classifier", "summary">>

\* AfterScrape with the full pipeline going on as the quick one does
AfterScrapeNoClassify(k) ==
  IF k = "custom" THEN "custom_classify" ELSE "gather"

\* where a call goes once the scrape stage returned page data
AfterScrape(k) ==
  CASE k = "full" -> "classify"
    [] k = "quick" -> "gather"
    [] OTHER -> "custom_classify"

\* step 4 of analyze_website: design advice runs only for landing pages
AfterGather(k, res) ==
  IF k = "full" /\ IsLandingPage(res.classifier) THEN "design" ELSE "finish"

\* GatherResult that leaves an exception unconverted
GatherResultKeep(a, state, value) == value

\* isinstance(result, Exception) -> {'success': False, 'error': str(result)}
GatherResult(a, state, value) ==
  IF state = "raised" THEN ExceptionFailure(a) ELSE value

InSeq(x, s) == \E i \in DOMAIN s : s[i] = x
IndexOf(x, s) == CHOOSE i \in DOMAIN s : s[i] = x

\* ------------------------------------------------------------------ Init
EmptyDict == [k \in {} |-> None]
NoResults == [a \in Agents |-> None]
NoCall == [kind |-> "none", url |-> "", use_cache |-> FALSE, ret |-> None, quiet |-> FALSE]
ZeroStats == [total_analyses |-> 0, successful_analyses |-> 0, failed_analyses |-> 0, cache_hits |-> 0, cache_misses |-> 0]

\* no call made on a component by itself
NoOp == [op |-> "none"]
RunIds == {"r1", "r2", "r3"}

NoFrame == [pc |-> "idle"]
ZeroCmStats == [hits |-> 0, misses |-> 0, sets |-> 0, deletes |-> 0, errors |-> 0]
ZeroTally == [gets |-> 0, found |-> 0, sets |-> 0, deletes |-> 0, calls |-> 0]
NoResponse == [status |-> 0]

CompInit ==
  /\ frames = [r \in RunIds |-> NoFrame]
  /\ cm_stats = ZeroCmStats
  /\ tally = ZeroTally
  /\ files = <<>>
  /\ redis = <<>>
  /\ api_cache = EmptyDict
  /\ response = NoResponse

LibInit ==
  /\ sec_requests = EmptyDict
  /\ sec_last_cleanup = 0
  /\ mem = <<>>
  /\ now = 0
  /\ last = NoOp
  /\ runs = [r \in RunIds |-> "idle"]
  /\ CompInit

Init ==
  /\ LibInit
  /\ tool \in Tools
  /\ cache = EmptyDict
  /\ requests = EmptyDict
  /\ stats = ZeroStats
  /\ ncalls = 0
  /\ pc = "idle"
  /\ kind = "none" /\ url = "" /\ use_cache = FALSE /\ agents_config = DefaultConfig
  /\ website_data = None
  /\ results = NoResults
  /\ tasks = <<>>
  /\ tstate = [s \in Stages |-> "new"]
  /\ attempts = [s \in Stages |-> 0]
  /\ sleep = 0
  /\ ret = None
  /\ prev = NoCall
  /\ disturbed = FALSE

\* the call that has just returned is one that prev will remember
Tracked == pc = "done" /\ kind = "full" /\ use_cache /\ ~Has(ret, "error")

\* the call returns r
Return(r) ==
  /\ ret' = r
  /\ pc' = "done"
  /\ disturbed' = FALSE

\* an except clause that returns the error record without counting it
ExceptUncounted(stage) ==
  /\ Return(ErrorResult(kind, url, ErrorPrefix(kind) \o "RetryError " \o stage, ncalls))
  /\ UNCHANGED stats

\* the except clause of the call: the exception of an exhausted stage
Except(stage) ==
  /\ Return(ErrorResult(kind, url, ErrorPrefix(kind) \o "RetryError " \o stage, ncalls))
  /\ stats' = IF kind = "custom" THEN stats
              ELSE [stats EXCEPT !.failed_analyses = @ + 1]


\* --------------------------------------------------------------- actions
\* A call begins.  analyze_website / get_quick_analysis: total_analyses is
\* counted and, with use_cache, the cache is looked up; a hit is returned at
\* once.  _run_custom_analysis goes straight to scraping.
Call(k, u, uc, cfg) ==
  /\ UNCHANGED lib
  /\ pc \in {"idle", "done"}
  /\ ncalls' = ncalls + 1
  /\ prev' = IF Tracked
             THEN [kind |-> kind, url |-> url, use_cache |-> use_cache, ret |-> ret,
                   quiet |-> ~disturbed]
             ELSE NoCall
  /\ kind' = k /\ url' = u /\ use_cache' = uc /\ agents_config' = cfg
  /\ website_data' = None
  /\ results' = NoResults
  /\ tasks' = <<>>
  /\ tstate' = [s \in Stages |-> "new"]
  /\ attempts' = [s \in Stages |-> 0]
  /\ sleep' = 0
  /\ disturbed' = FALSE
  /\ UNCHANGED <<tool, requests>>
  /\ IF k = "custom"
     THEN /\ pc' = "scrape"
          /\ ret' = None
          /\ UNCHANGED <<cache, stats>>
     ELSE IF uc
     THEN LET got == CacheGet(cache, u, k) IN
          /\ cache' = got.cache
          /\ IF Truthy(got.value)
             THEN /\ stats' = [stats EXCEPT !.total_analyses = @ + 1, !.cache_hits = @ + 1]
                  /\ ret' = got.value
                  /\ pc' = "done"
             ELSE /\ stats' = [stats EXCEPT !.total_analyses = @ + 1, !.cache_misses = @ + 1]
                  /\ ret' = None
                  /\ pc' = "acquire"
     ELSE /\ stats' = [stats EXCEPT !.total_analyses = @ + 1]
          /\ ret' = None
          /\ pc' = "acquire"
          /\ UNCHANGED cache

\* one round of wait_for_slot: acquire, and asyncio.sleep(1) when denied
WaitForSlot ==
  /\ UNCHANGED lib
  /\ pc = "acquire"
  /\ sleep = 0
  /\ LET a == acquire(requests, "default") IN
     /\ requests' = a.requests
     /\ IF a.allowed
        THEN pc' = "scrape" /\ sleep' = 0
        ELSE pc' = "acquire" /\ sleep' = 1
  /\ UNCHANGED <<tool, cache, stats, ncalls, kind, url, use_cache, agents_config,
                 website_data, results, tasks, tstate, attempts, ret, prev, disturbed>>

\* the next stage of a custom analysis that does not run the classifier,
\* or has run it: the gather of the selected tasks, or the aggregation
CustomNext(cfg, res) == IF CustomTasks(cfg, res) = <<>> THEN "finish" ELSE "gather"

\* one attempt of _scrape_website_with_retry, and the 'error' check after it
Scrape(outcome) ==
  /\ UNCHANGED lib
  /\ pc = "scrape"
  /\ UNCHANGED <<tool, cache, requests, ncalls, kind, url, use_cache, agents_config,
                 results, sleep, prev>>
  /\ IF outcome = "raise"
     THEN /\ UNCHANGED <<website_data, tasks>>
          /\ attempts' = [attempts EXCEPT !.scrape = @ + 1]
          /\ IF attempts'.scrape = MaxAttempts
             THEN /\ tstate' = [tstate EXCEPT !.scrape = "raised"]
                  /\ Except("scrape")
             ELSE /\ tstate' = [tstate EXCEPT !.scrape = "sleeping"]
                  /\ UNCHANGED <<pc, ret, stats, disturbed>>
     ELSE LET data == ScrapeResult(tool, url, outcome) IN
          /\ website_data' = data
          /\ tstate' = [tstate EXCEPT !.scrape = "returned"]
          /\ attempts' = [attempts EXCEPT !.scrape = 0]
          /\ IF Has(data, "error")
             THEN /\ Return(ErrorResult(kind, url, "Failed to scrape website: " \o data.error, ncalls))
                  /\ stats' = IF kind = "custom" THEN stats
                              ELSE [stats EXCEPT !.failed_analyses = @ + 1]
                  /\ UNCHANGED tasks
             ELSE /\ UNCHANGED <<ret, stats, disturbed>>
                  /\ IF AfterScrape(kind) = "custom_classify" /\ ~agents_config.classifier
                     THEN /\ pc' = CustomNext(agents_config, results)
                          /\ tasks' = CustomTasks(agents_config, results)
                     ELSE /\ pc' = AfterScrape(kind)
                          /\ tasks' = IF AfterScrape(kind) = "gather" THEN QuickTasks ELSE <<>>

\* one attempt of _run_classifier_with_retry, awaited on its own before the
\* other agents (analyze_website step 2, _run_custom_analysis)
Classify(raises, r) ==
  /\ UNCHANGED lib
  /\ pc \in {"classify", "custom_classify"}
  /\ UNCHANGED <<tool, cache, requests, ncalls, kind, url, use_cache, agents_config,
                 website_data, sleep, prev>>
  /\ IF raises
     THEN /\ UNCHANGED <<results, tasks>>
          /\ attempts' = [attempts EXCEPT !.classifier = @ + 1]
          /\ IF attempts'.classifier = MaxAttempts
             THEN /\ tstate' = [tstate EXCEPT !.classifier = "raised"]
                  /\ Except("classifier")
             ELSE /\ tstate' = [tstate EXCEPT !.classifier = "sleeping"]
                  /\ UNCHANGED <<pc, ret, stats, disturbed>>
     ELSE /\ results' = [results EXCEPT !.classifier = r]
          /\ tstate' = [tstate EXCEPT !.classifier = "returned"]
          /\ attempts' = [attempts EXCEPT !.classifier = 0]
          /\ UNCHANGED <<ret, stats, disturbed>>
          /\ IF pc = "classify"
             THEN pc' = "gather" /\ tasks' = FullTasks
             ELSE /\ pc' = CustomNext(agents_config, results')
                  /\ tasks' = CustomTasks(agents_config, results')

\* Runnable that lets a task of the gather run whatever its state
RunnableAlways(t) == InSeq(t, tasks)

\* a task of the gather may run: a new task starts once the tasks created
\* before it have started; a task sleeping between attempts may wake up
Runnable(t) ==
  /\ InSeq(t, tasks)
  /\ \/ tstate[t] = "sleeping"
     \/ /\ tstate[t] = "new"
        /\ \A j \in DOMAIN tasks : j < IndexOf(t, tasks) => tstate[tasks[j]] # "new"

\* one attempt of a task handed to asyncio.gather
TaskStep(t, raises, r) ==
  /\ UNCHANGED lib
  /\ pc = "gather"
  /\ Runnable(t)
  /\ IF raises
     THEN /\ attempts' = [attempts EXCEPT ![t] = @ + 1]
          /\ tstate' = [tstate EXCEPT ![t] = IF attempts'[t] = MaxAttempts THEN "raised" ELSE "sleeping"]
          /\ UNCHANGED results
     ELSE /\ attempts' = [attempts EXCEPT ![t] = 0]
          /\ tstate' = [tstate EXCEPT ![t] = "returned"]
          /\ results' = [results EXCEPT ![t] = r]
  /\ UNCHANGED <<tool, cache, requests, stats, ncalls, pc, kind, url, use_cache,
                 agents_config, website_data, tasks, sleep, ret, prev, disturbed>>

\* asyncio.gather(..., return_exceptions=True) returns: every task has ended;
\* exceptions become Failure results; analyze_website decides on design advice
GatherDone ==
  /\ UNCHANGED lib
  /\ pc = "gather"
  /\ \A i \in DOMAIN tasks : tstate[tasks[i]] \in {"returned", "raised"}
  /\ results' = [a \in Agents |->
                   IF InSeq(a, tasks) THEN GatherResult(a, tstate[a], results[a])
                   ELSE results[a]]
  /\ pc' = AfterGather(kind, results')
  /\ UNCHANGED <<tool, cache, requests, stats, ncalls, kind, url, use_cache, agents_config,
                 website_data, tasks, tstate, attempts, sleep, ret, prev, disturbed>>

\* one attempt of _run_design_advisor_with_retry, awaited by analyze_website
Design(raises, r) ==
  /\ UNCHANGED lib
  /\ pc = "design"
  /\ UNCHANGED <<tool, cache, requests, ncalls, kind, url, use_cache, agents_config,
                 website_data, tasks, sleep, prev>>
  /\ IF raises
     THEN /\ UNCHANGED results
          /\ attempts' = [attempts EXCEPT !.design_advisor = @ + 1]
          /\ IF attempts'.design_advisor = MaxAttempts
             THEN /\ tstate' = [tstate EXCEPT !.design_advisor = "raised"]
                  /\ Except("design_advisor")
             ELSE /\ tstate' = [tstate EXCEPT !.design_advisor = "sleeping"]
                  /\ UNCHANGED <<pc, ret, stats, disturbed>>
     ELSE /\ results' = [results EXCEPT !.design_advisor = r]
          /\ tstate' = [tstate EXCEPT !.design_advisor = "returned"]
          /\ attempts' = [attempts EXCEPT !.design_advisor = 0]
          /\ pc' = "finish"
          /\ UNCHANGED <<ret, stats, disturbed>>

\* the record of the call by its kind
Record(k, u, data, res, stamp) ==
  IF k = "quick" THEN QuickResult(u, data, res, stamp)
  ELSE _aggregate_results(u, data, res, stamp)

\* Finish that stores the record whatever use_cache says
FinishStoring ==
  /\ UNCHANGED lib
  /\ pc = "finish"
  /\ Return(Record(kind, url, website_data, results, ncalls))
  /\ cache' = IF kind # "custom"
              THEN CacheSet(cache, url, Record(kind, url, website_data, results, ncalls), kind)
              ELSE cache
  /\ stats' = IF kind = "custom" THEN stats
              ELSE [stats EXCEPT !.successful_analyses = @ + 1]
  /\ UNCHANGED <<tool, requests, ncalls, kind, url, use_cache, agents_config, website_data,
                 results, tasks, tstate, attempts, sleep, prev>>

\* the results are aggregated, stored in the cache (analyze_website and
\* get_quick_analysis with use_cache) and returned
Finish ==
  /\ UNCHANGED lib
  /\ pc = "finish"
  /\ Return(Record(kind, url, website_data, results, ncalls))
  /\ cache' = IF kind # "custom" /\ use_cache
              THEN CacheSet(cache, url, Record(kind, url, website_data, results, ncalls), kind)
              ELSE cache
  /\ stats' = IF kind = "custom" THEN stats
              ELSE [stats EXCEPT !.successful_analyses = @ + 1]
  /\ UNCHANGED <<tool, requests, ncalls, kind, url, use_cache, agents_config, website_data,
                 results, tasks, tstate, attempts, sleep, prev>>

\* CrewOrchestrator.clear_cache, between two calls
ClearCache ==
  /\ UNCHANGED lib
  /\ pc \in {"idle", "done"}
  /\ cache' = EmptyDict
  /\ disturbed' = Tracked
  /\ UNCHANGED <<tool, requests, stats, ncalls, pc, kind, url, use_cache, agents_config,
                 website_data, results, tasks, tstate, attempts, sleep, ret, prev>>

\* the entry under key lives its last second
Expires(c, key) == key \in DOMAIN c /\ c[key].age = ttl - 1

\* One second passes.  The code reads the clock at the cache lookup, in
\* acquire and at the cache store, and nowhere else; the seconds that pass
\* during a call are taken right before these reads.
Tick ==
  /\ UNCHANGED lib
  /\ pc \in {"idle", "done", "acquire", "finish"}
  /\ cache' = [k \in DOMAIN cache |-> [cache[k] EXCEPT !.age = Min(ttl, @ + 1)]]
  /\ requests' = [k \in DOMAIN requests |->
                    [i \in DOMAIN requests[k] |-> Min(time_window, requests[k][i] + 1)]]
  /\ sleep' = 0
  /\ disturbed' = (disturbed \/ (Tracked /\ Expires(cache, _generate_key(url, kind))))
  /\ UNCHANGED <<tool, stats, ncalls, pc, kind, url, use_cache, agents_config, website_data,
                 results, tasks, tstate, attempts, ret, prev>>

\* what an agent stage returns when the agent works
Successes(a) ==
  IF a = "classifier" THEN {ClassifierSuccess(t) : t \in WebsiteTypes}
  ELSE {AgentSuccess(a)}

\* One analysis call of any kind on the orchestrator as constructed, with
\* every behaviour of the scraper and of the agents.
Next ==
  \/ \E k \in Kinds, u \in Urls, uc \in BOOLEAN, cfg \in AgentsConfigs :
       /\ pc = "idle"
       /\ k # "custom" => cfg = DefaultConfig
       /\ k = "custom" => uc = TRUE
       /\ Call(k, u, uc, cfg)
  \/ WaitForSlot
  \/ \E outcome \in ScrapeOutcomes : Scrape(outcome)
  \/ \E r \in Returns("classifier") : Classify(FALSE, r)
  \/ Classify(TRUE, None)
  \/ \E t \in Agents : \E r \in Returns(t) : TaskStep(t, FALSE, r)
  \/ \E t \in Agents : TaskStep(t, TRUE, None)
  \/ GatherDone
  \/ \E r \in Returns("design_advisor") : Design(FALSE, r)
  \/ Design(TRUE, None)
  \/ Finish
  \/ ClearCache
  \/ Tick

Spec == Init /\ [][Next]_vars

\* Full and quick analyses called one after the other on one orchestrator,
\* the scraper fetching the page or failing, the agents working.
NextSeq ==
  \/ \E k \in {"full", "quick"}, u \in Urls, uc \in BOOLEAN :
       /\ ncalls < MaxCalls
       /\ Call(k, u, uc, DefaultConfig)
  \/ WaitForSlot
  \/ \E outcome \in {"ok", "fetch_failed"} : Scrape(outcome)
  \/ \E r \in Successes("classifier") : Classify(FALSE, r)
  \/ \E t \in Agents : \E r \in Successes(t) : TaskStep(t, FALSE, r)
  \/ GatherDone
  \/ \E r \in Successes("design_advisor") : Design(FALSE, r)
  \/ Finish
  \/ ClearCache
  \/ Tick

SpecSeq == Init /\ [][NextSeq]_vars

\* The aggregation alone, applied to every combination of the four agent
\* results: each absent, a Success, a Failure the agent returned or a Failure
\* made from an exception.
ResultValues(a) == {None, ExceptionFailure(a)} \cup Returns(a)

InitAgg ==
  /\ LibInit
  /\ tool = "direct"
  /\ cache = EmptyDict
  /\ requests = EmptyDict
  /\ stats = ZeroStats
  /\ ncalls = 1
  /\ pc = "finish"
  /\ kind = "custom" /\ url \in Urls /\ use_cache = TRUE /\ agents_config = DefaultConfig
  /\ website_data = scrape_website(url, "ok")
  /\ results \in [Agents -> UNION {ResultValues(a) : a \in Agents}]
  /\ \A a \in Agents : results[a] \in ResultValues(a)
  /\ tasks = <<>>
  /\ tstate = [s \in Stages |->
                 IF s = "scrape" THEN "returned"
                 ELSE IF IsNone(results[s]) THEN "new"
                 ELSE IF results[s] = ExceptionFailure(s) THEN "raised" ELSE "returned"]
  /\ attempts = [s \in Stages |-> 0]
  /\ sleep = 0
  /\ ret = None
  /\ prev = NoCall
  /\ disturbed = FALSE

NextAgg == Finish

SpecAgg == InitAgg /\ [][NextAgg]_vars

\* ---------------------------------------------------------------- claims
\* the field of a record that holds the result of agent a
FieldOf(r, a) ==
  CASE a = "classifier" -> r.classification
    [] a = "summary" -> r.summary
    [] a = "ux_reviewer" -> r.ux_review
    [] OTHER -> r.design_advice

\* r is a record made by _aggregate_results
Aggregated(r) == Has(r, "success_rate")
IsTopError(r) == Has(r, "error")
IsRecord(r) == Has(r, "status") /\ ~Has(r, "error")
Attempted(r) == {a \in Agents : FieldOf(r, a) # None}
Succeeded(r) == {a \in Attempted(r) : FieldOf(r, a).success = TRUE}

\* C1 as stated: of every record made by _aggregate_results, status is
\* completed iff every attempted result succeeded, partial iff one succeeded
\* and one failed, failed iff none succeeded.
C1_Original ==
  (pc = "done" /\ Aggregated(ret)) =>
    /\ (ret.status = "completed") <=> (Succeeded(ret) = Attempted(ret))
    /\ (ret.status = "partial") <=> (Succeeded(ret) # {} /\ Succeeded(ret) # Attempted(ret))
    /\ (ret.status = "failed") <=> (Succeeded(ret) = {})

\* C1 amended: status is completed iff at least one result was attempted and
\* every attempted result succeeded; partial iff one succeeded and one
\* failed; failed iff none succeeded (also when nothing was attempted).
C1_Status ==
  (pc = "done" /\ Aggregated(ret)) =>
    /\ ret.status \in {"completed", "partial", "failed"}
    /\ (ret.status = "completed") <=> (Attempted(ret) # {} /\ Succeeded(ret) = Attempted(ret))
    /\ (ret.status = "partial") <=> (Succeeded(ret) # {} /\ Succeeded(ret) # Attempted(ret))
    /\ (ret.status = "failed") <=> (Succeeded(ret) = {})

\* a custom analysis with no agent selected returned its record
C1_Witness ==
  pc = "done" /\ Aggregated(ret) /\ Attempted(ret) = {} /\ ret.status = "failed"

\* C3: success_rate is successes / attempted, 0 when nothing was attempted,
\* and the division is never by zero; classification success, summary
\* failure, UX-review success and design absent give partial and 2/3.
C3_SuccessRate ==
  (pc = "done" /\ Aggregated(ret)) =>
    /\ ~Has(ret.success_rate, "raised")
    /\ Has(ret.success_rate, "num") /\ Has(ret.success_rate, "den")
    /\ ret.success_rate.den > 0
    /\ IF Attempted(ret) = {}
       THEN ret.success_rate.num = 0
       ELSE ret.success_rate.num * Cardinality(Attempted(ret))
              = Cardinality(Succeeded(ret)) * ret.success_rate.den
    /\ (/\ Succeeded(ret) = {"classifier", "ux_reviewer"}
        /\ Attempted(ret) = {"classifier", "summary", "ux_reviewer"})
       => (ret.status = "partial" /\ ret.success_rate = [num |-> 2, den |-> 3])

\* the partial record of the example was aggregated
C3_Witness ==
  /\ pc = "done" /\ Aggregated(ret)
  /\ Succeeded(ret) = {"classifier", "ux_reviewer"}
  /\ Attempted(ret) = {"classifier", "summary", "ux_reviewer"}
  /\ ret.success_rate = [num |-> 2, den |-> 3]

\* classification succeeded and its type is landing_page
ClsLandingPage(c) ==
  /\ Has(c, "success") /\ c.success = TRUE
  /\ Has(c, "classification") /\ c.classification.type = "landing_page"

\* the design-advice agent was invoked by the running call
DesignInvoked == tstate.design_advisor # "new"

\* C2 as stated: in the full pipeline and in custom analysis design advice
\* is invoked iff classification succeeded with type landing_page; otherwise
\* it is never invoked and the record's field is None.
C2_Original ==
  kind \in {"full", "custom"} =>
    /\ DesignInvoked => ClsLandingPage(results.classifier)
    /\ (pc = "done" /\ IsRecord(ret)) =>
         /\ DesignInvoked <=> ClsLandingPage(ret.classification)
         /\ ~DesignInvoked => ret.design_advice = None

\* what has to hold for design advice to be run by the call
DesignDue(c) ==
  ClsLandingPage(c) /\ (kind = "custom" => agents_config.design_advisor)

\* C2 amended: in the full pipeline design advice is invoked iff
\* classification succeeded with type landing_page; in custom analysis iff,
\* in addition, agents_config.design_advisor is set.  In every other case it
\* is never invoked and the record's field is None, not a Failure.
C2_DesignGating ==
  kind \in {"full", "custom"} =>
    /\ DesignInvoked => DesignDue(results.classifier)
    /\ (pc = "done" /\ IsRecord(ret)) =>
         /\ DesignInvoked <=> DesignDue(ret.classification)
         /\ ~DesignInvoked => ret.design_advice = None
         /\ DesignInvoked => ret.design_advice # None

\* a custom analysis of a landing page returned a record with design advice
C2_Witness ==
  /\ pc = "done" /\ kind = "custom" /\ IsRecord(ret)
  /\ tstate.design_advisor = "returned" /\ ret.design_advice # None

\* the running call repeats the call before it, which returned a record
\* that was neither cleared nor expired before this call
RepeatsQuietly ==
  /\ pc = "done" /\ kind = "full" /\ use_cache
  /\ prev.kind = "full" /\ prev.url = url /\ prev.use_cache
  /\ prev.quiet /\ IsRecord(prev.ret)

\* C4: analyze_website(url, use_cache=true) called twice in quick succession,
\* with no TTL expiry and no cache clear in between, yields identical
\* records, and the second call scrapes nothing and calls no agent.
C4_IdempotentCaching ==
  RepeatsQuietly =>
    /\ ret = prev.ret
    /\ \A s \in Stages : tstate[s] = "new"
    /\ website_data = None

\* the second of two such calls returned the record of the first
C4_Witness == RepeatsQuietly /\ ret = prev.ret /\ Aggregated(ret)

\* C5 as stated: when the scraper returns an error result, analyze_website
\* returns a top-level error and stores nothing in the cache for the url.
C5_Original ==
  (/\ pc = "done" /\ kind = "full" /\ tstate.scrape = "returned"
   /\ website_data = ScrapeResult(tool, url, "fetch_failed"))
  => (IsTopError(ret) /\ _generate_key(url, "full") \notin DOMAIN cache)

\* r carries a success rate and a success flag for every agent result in it
CarriesRecord(r) ==
  /\ Has(r, "success_rate")
  /\ \A a \in Agents : FieldOf(r, a) # None => Has(FieldOf(r, a), "success")

\* C6 as stated: every analysis call returns exactly one of a record with a
\* success rate and per-agent success flags, or a top-level error.
C6_Original ==
  pc = "done" => (IsTopError(ret) # CarriesRecord(ret))

\* C7 as stated: in the full pipeline an agent stage whose every attempt
\* raised still leaves an aggregated record with a Failure in its field.
C7_Original ==
  (pc = "done" /\ kind = "full") =>
    \A a \in Agents : tstate[a] = "raised" =>
      (IsRecord(ret) /\ FieldOf(ret, a) # None /\ FieldOf(ret, a).success = FALSE)

\* the other of the two gathered stages
OtherOf(t) == IF t = "summary" THEN "ux_reviewer" ELSE "summary"

\* C8: in the full pipeline an exception escaping the summary or the
\* UX-review stage is replaced by a Failure {success: false, error} for
\* that stage alone; the other stage runs to its own outcome and the run goes
\* on past the gather to the aggregation (by way of the design stage for a
\* landing page, whose own exhaustion is another matter).
C8_GatherIsolation ==
  \A t \in {"summary", "ux_reviewer"} :
    (kind = "full" /\ tstate[t] = "raised") =>
      /\ pc \in {"gather", "design", "finish", "done"}
      /\ pc = "done" =>
           (tstate.design_advisor = "raised" \/ (Aggregated(ret) /\ FieldOf(ret, t) = results[t]))
      /\ pc \in {"design", "finish", "done"} =>
           /\ results[t] # None /\ results[t].success = FALSE /\ Has(results[t], "error")
           /\ tstate[OtherOf(t)] \in {"returned", "raised"}
           /\ tstate[OtherOf(t)] = "returned" => results[OtherOf(t)] \in Returns(OtherOf(t))

\* the summary stage raised on every attempt, UX review succeeded, and the
\* record was returned
C8_Witness ==
  /\ pc = "done" /\ kind = "full" /\ Aggregated(ret)
  /\ tstate.summary = "raised" /\ ret.summary.success = FALSE
  /\ ret.ux_review = AgentSuccess("ux_reviewer")

\* C9: in the full pipeline classification has completed, with success or
\* failure, before the summary or the UX-review stage is started.  (That the
\* two may finish in either order is shown by the witness.)
C9_ClassifyFirst ==
  kind = "full" =>
    \A t \in {"summary", "ux_reviewer"} :
      tstate[t] # "new" =>
        /\ tstate.classifier = "returned"
        /\ results.classifier \in Returns("classifier")

\* after a failed classification UX review has finished while summary has not
C9_Witness ==
  /\ kind = "full" /\ tstate.ux_reviewer = "returned" /\ tstate.summary = "sleeping"
  /\ results.classifier.success = FALSE

\* summary and UX review, where the call runs them, have both finished
BothFinished ==
  \A t \in {"summary", "ux_reviewer"} :
    (kind = "custom" /\ ~agents_config[t]) \/ tstate[t] \in {"returned", "raised"}

\* C10 as stated: whenever design advice runs, in the full pipeline or in
\* custom analysis, it is started only after summary and UX review finished.
C10_Original ==
  (kind \in {"full", "custom"} /\ DesignInvoked) => BothFinished

\* C10 amended: in the full pipeline design advice is started only after
\* both summary and UX review have finished; in custom analysis it is
\* started only after classification has returned, and is gathered together
\* with summary and UX review, so it may start before they have finished.
C10_DesignLast ==
  /\ (kind = "full" /\ DesignInvoked) => BothFinished
  /\ (kind = "custom" /\ DesignInvoked) =>
       (tstate.classifier = "returned" /\ InSeq("design_advisor", tasks))

\* in the full pipeline design advice ran after an exhausted summary stage
C10_Witness ==
  /\ kind = "full" /\ tstate.design_advisor = "returned"
  /\ tstate.summary = "raised" /\ tstate.ux_reviewer = "returned"

\* ------------------------------------------- the rate limiters by themselves
Keys == {"k1", "k2"}
\* the limiter a behaviour exercises
Limiters == {"orchestrator", "security"}

\* the variables of a running analysis call
callvars == <<tool, stats, ncalls, pc, kind, url, use_cache, agents_config, website_data,
              results, tasks, tstate, attempts, sleep, ret, prev, disturbed>>

\* [req_time for req_time in s if req_time > now - bound]
Pruned(s, bound) == SeqFilterLt(s, bound)

\* _cleanup_old_entries that cuts at one window
_cleanup_old_entriesOneWindow(reqs) ==
  LET cut == [k \in DOMAIN reqs |-> Pruned(reqs[k], rate_limit_window)]
  IN [k \in {x \in DOMAIN reqs : cut[x] # <<>>} |-> cut[k]]

\* security.RateLimiter._cleanup_old_entries
_cleanup_old_entries(reqs) ==
  LET cut == [k \in DOMAIN reqs |-> Pruned(reqs[k], 2 * rate_limit_window)]
  IN [k \in {x \in DOMAIN reqs : cut[x] # <<>>} |-> cut[k]]

\* is_allowed that keeps every recorded timestamp for ever
is_allowedNoPruning(reqs, cleanup_age, key) ==
  LET old == IF key \in DOMAIN reqs THEN reqs[key] ELSE <<>>
      allowed == Len(old) < max_requests_per_window
      new == IF allowed THEN Append(old, 0) ELSE old
  IN [allowed |-> allowed,
      remaining |-> IF allowed THEN max_requests_per_window - Len(new) ELSE 0,
      last_cleanup |-> cleanup_age,
      requests |-> [k \in DOMAIN reqs \cup {key} |-> IF k = key THEN new ELSE reqs[k]]]

\* security.RateLimiter.is_allowed: the answer and the state it leaves
is_allowed(reqs, cleanup_age, key) ==
  LET due == cleanup_age > _cleanup_interval
      reqs1 == IF due THEN _cleanup_old_entries(reqs) ELSE reqs
      old == IF key \in DOMAIN reqs1 THEN reqs1[key] ELSE <<>>
      kept == Pruned(old, rate_limit_window)
      allowed == Len(kept) < max_requests_per_window
      new == IF allowed THEN Append(kept, 0) ELSE kept
  IN [allowed |-> allowed,
      remaining |-> IF allowed THEN max_requests_per_window - Len(new) ELSE 0,
      last_cleanup |-> IF due THEN 0 ELSE cleanup_age,
      requests |-> [k \in DOMAIN reqs1 \cup {key} |-> IF k = key THEN new ELSE reqs1[k]]]

\* the timestamps recorded for key
Recorded(reqs, key) == IF key \in DOMAIN reqs THEN reqs[key] ELSE <<>>

\* await RateLimiter.acquire(key), called by itself
LimAcquire(key) ==
  /\ last.limiter = "orchestrator"
  /\ requests' = acquire(requests, key).requests
  /\ last' = [op |-> "acquire", limiter |-> last.limiter, key |-> key, before |-> Recorded(requests, key),
              allowed |-> acquire(requests, key).allowed, after |-> requests'[key]]
  /\ UNCHANGED <<callvars, cache, sec_requests, sec_last_cleanup, mem, now, runs, comp>>

\* security.RateLimiter.is_allowed(key)
LimIsAllowed(key) ==
  /\ last.limiter = "security"
  /\ sec_requests' = is_allowed(sec_requests, sec_last_cleanup, key).requests
  /\ sec_last_cleanup' = is_allowed(sec_requests, sec_last_cleanup, key).last_cleanup
  /\ last' = [op |-> "is_allowed", limiter |-> last.limiter, key |-> key, before |-> Recorded(sec_requests, key),
              allowed |-> is_allowed(sec_requests, sec_last_cleanup, key).allowed,
              after |-> sec_requests'[key]]
  /\ UNCHANGED <<callvars, cache, requests, mem, now, runs, comp>>

\* one second passes for the two limiters
LimTick ==
  /\ requests' = [k \in DOMAIN requests |->
                    [i \in DOMAIN requests[k] |-> Min(time_window, requests[k][i] + 1)]]
  /\ sec_requests' = [k \in DOMAIN sec_requests |->
                        [i \in DOMAIN sec_requests[k] |->
                           Min(2 * rate_limit_window, sec_requests[k][i] + 1)]]
  /\ sec_last_cleanup' = Min(_cleanup_interval + 1, sec_last_cleanup + 1)
  /\ UNCHANGED <<callvars, cache, mem, now, last, runs, comp>>

InitLimiter ==
  /\ tool = "direct"
  /\ cache = EmptyDict /\ requests = EmptyDict /\ stats = ZeroStats
  /\ ncalls = 0 /\ pc = "idle"
  /\ kind = "none" /\ url = "" /\ use_cache = FALSE /\ agents_config = DefaultConfig
  /\ website_data = None /\ results = NoResults /\ tasks = <<>>
  /\ tstate = [s \in Stages |-> "new"] /\ attempts = [s \in Stages |-> 0]
  /\ sleep = 0 /\ ret = None /\ prev = NoCall /\ disturbed = FALSE
  /\ sec_requests = EmptyDict /\ sec_last_cleanup = 0
  /\ mem = <<>> /\ now = 0 /\ runs = [r \in RunIds |-> "idle"]
  /\ CompInit
  /\ last \in {[op |-> "none", limiter |-> l] : l \in Limiters}

NextLimiter ==
  \/ \E key \in Keys : LimAcquire(key)
  \/ \E key \in Keys : LimIsAllowed(key)
  \/ LimTick

SpecLimiter == InitLimiter /\ [][NextLimiter]_vars

\* the window and the limit of the limiter that made the last call
LastWindow == IF last.op = "acquire" THEN time_window ELSE rate_limit_window
LastLimit == IF last.op = "acquire" THEN max_requests ELSE max_requests_per_window
\* the timestamps of the key that lay within the trailing window at the call
LastWithin == {i \in DOMAIN last.before : last.before[i] < LastWindow}

\* C12: for both rate limiters a call for key k at time t is allowed, and
\* records the timestamp t, iff fewer than max_requests recorded timestamps
\* of k lie within the trailing window ending at t; a denied call records
\* no timestamp for k.
C12_LimiterAdmission ==
  last.op \in {"acquire", "is_allowed"} =>
    /\ last.allowed <=> (Cardinality(LastWithin) < LastLimit)
    /\ last.allowed =>
         /\ Len(last.after) = Cardinality(LastWithin) + 1
         /\ last.after[Len(last.after)] = 0
    /\ ~last.allowed =>
         /\ Len(last.after) = Cardinality(LastWithin)
         /\ \A i \in DOMAIN last.after : last.after[i] > 0 \/ 0 \in {last.before[j] : j \in DOMAIN last.before}

\* is_allowed denied a call of a key with a full window, and recorded nothing
C12_Witness ==
  /\ last.op = "is_allowed" /\ ~last.allowed
  /\ Len(last.before) = max_requests_per_window /\ last.after = last.before

\* C13: with max_requests = N and a window of W seconds, the first N calls
\* for a key within one window succeed and the next one within that window
\* fails; once more than W seconds have passed since the recorded calls, a
\* call for the key succeeds again.
C13_LimiterWindow ==
  last.op \in {"acquire", "is_allowed"} =>
    /\ Len(last.before) < LastLimit => last.allowed
    /\ (Len(last.before) = LastLimit /\ \A i \in DOMAIN last.before : last.before[i] < LastWindow)
         => ~last.allowed
    /\ (\A i \in DOMAIN last.before : last.before[i] >= LastWindow) => last.allowed

\* a key whose window was full is allowed again after the window has passed
C13_Witness ==
  /\ last.op = "is_allowed" /\ last.allowed
  /\ Len(last.before) = max_requests_per_window
  /\ \A i \in DOMAIN last.before : last.before[i] >= rate_limit_window
  /\ last.after = <<0>>

\* --------------------------------------------------- the caches by themselves
\* the keys used on the MemoryCacheBackend: one more than it holds
AllMemKeys == <<"a", "b", "c", "d", "e">>
MemKeys == {AllMemKeys[i] : i \in 1..(max_size + 1)}
\* the value stored under a key: one per key, different between keys
ValueFor(key) == "value of " \o key
\* expires_at of an entry set with ttl=None
NoExpiry == 0 - 1
\* the ttl arguments of set: None, or one second
TtlChoices == {NoExpiry, 1}
Backends == {"memory", "orchestrator"}

\* the position of key in the dict, 0 when it is not stored
MemIndex(m, key) ==
  IF \E i \in DOMAIN m : m[i].key = key
  THEN CHOOSE i \in DOMAIN m : m[i].key = key
  ELSE 0

\* del self.cache[key]
MemDelete(m, key) == SelectSeq(m, LAMBDA e : e.key # key)

\* CacheEntry.is_expired
is_expired(e, t) == IF e.expires_at = NoExpiry THEN FALSE ELSE t > e.expires_at

\* min(self.cache.keys(), key=last_accessed): the first of the least
LruIndex(m) ==
  CHOOSE i \in DOMAIN m :
    /\ \A j \in DOMAIN m : m[i].last_accessed <= m[j].last_accessed
    /\ \A j \in DOMAIN m : (j < i) => m[j].last_accessed > m[i].last_accessed

\* _evict_lru that evicts the entry inserted first
_evict_fifo(m) == IF m = <<>> THEN m ELSE Tail(m)

\* MemoryCacheBackend._evict_lru
_evict_lru(m) == IF m = <<>> THEN m ELSE MemDelete(m, m[LruIndex(m)].key)

\* MemoryCacheBackend.get that returns what is stored, expired or not
MemGetStale(m, key, t) ==
  IF MemIndex(m, key) = 0 THEN [value |-> "None", cache |-> m]
  ELSE [value |-> m[MemIndex(m, key)].value, cache |-> m]

\* MemoryCacheBackend.get: the value returned ("None" for None) and the cache
MemGet(m, key, t) ==
  IF MemIndex(m, key) = 0 THEN [value |-> "None", cache |-> m]
  ELSE IF is_expired(m[MemIndex(m, key)], t)
       THEN [value |-> "None", cache |-> MemDelete(m, key)]
       ELSE [value |-> m[MemIndex(m, key)].value,
             cache |-> [m EXCEPT ![MemIndex(m, key)].last_accessed = t]]

\* MemoryCacheBackend.set: the cache it leaves (access_count, which nothing
\* reads, is left out)
MemSet(m, key, value, t, tl) ==
  LET entry == [key |-> key, value |-> value,
                expires_at |-> IF tl = NoExpiry THEN NoExpiry ELSE t + tl,
                last_accessed |-> t]
      room == IF Len(m) >= max_size /\ MemIndex(m, key) = 0 THEN _evict_lru(m) ELSE m
  IN IF MemIndex(room, key) = 0 THEN Append(room, entry)
     ELSE [room EXCEPT ![MemIndex(room, key)] = entry]

\* MemoryCacheBackend.get(key)
DoMemGet(key) ==
  /\ last.backend = "memory"
  /\ mem' = MemGet(mem, key, now).cache
  /\ last' = [op |-> "get", backend |-> last.backend, key |-> key,
              value |-> MemGet(mem, key, now).value,
              purged |-> (MemIndex(mem, key) # 0 /\ MemIndex(mem', key) = 0)]
  /\ UNCHANGED <<callvars, cache, requests, sec_requests, sec_last_cleanup, now, runs, comp>>

\* MemoryCacheBackend.set(key, value, ttl)
DoMemSet(key, value, tl) ==
  /\ last.backend = "memory"
  /\ mem' = MemSet(mem, key, value, now, tl)
  /\ last' = [op |-> "set", backend |-> last.backend,
              evicted |-> IF Len(mem) >= max_size /\ MemIndex(mem, key) = 0 /\ mem # <<>>
                          THEN mem[LruIndex(mem)].key ELSE "None"]
  /\ UNCHANGED <<callvars, cache, requests, sec_requests, sec_last_cleanup, now, runs, comp>>

\* the results stored in the orchestrator's cache
CmValues == {[payload |-> v] : v \in {"v1", "v2"}}

\* CacheManager.get(url, analysis_type) of the orchestrator
DoCmGet(u, analysis_type) ==
  /\ last.backend = "orchestrator"
  /\ cache' = CacheGet(cache, u, analysis_type).cache
  /\ last' = [op |-> "get", backend |-> last.backend, key |-> _generate_key(u, analysis_type),
              value |-> CacheGet(cache, u, analysis_type).value,
              purged |-> (_generate_key(u, analysis_type) \in DOMAIN cache \ DOMAIN cache')]
  /\ UNCHANGED <<callvars, requests, sec_requests, sec_last_cleanup, mem, now, runs, comp>>

\* CacheManager.set(url, result, analysis_type) of the orchestrator
DoCmSet(u, value, analysis_type) ==
  /\ last.backend = "orchestrator"
  /\ cache' = CacheSet(cache, u, value, analysis_type)
  /\ last' = [op |-> "set", backend |-> last.backend, evicted |-> "None"]
  /\ UNCHANGED <<callvars, requests, sec_requests, sec_last_cleanup, mem, now, runs, comp>>

\* one second passes for the caches
CacheTick ==
  /\ now < MaxTime
  /\ now' = now + 1
  /\ cache' = [k \in DOMAIN cache |-> [cache[k] EXCEPT !.age = Min(ttl, @ + 1)]]
  /\ UNCHANGED <<callvars, requests, sec_requests, sec_last_cleanup, mem, last, runs, comp>>

InitCache ==
  /\ tool = "direct"
  /\ cache = EmptyDict /\ requests = EmptyDict /\ stats = ZeroStats
  /\ ncalls = 0 /\ pc = "idle"
  /\ kind = "none" /\ url = "" /\ use_cache = FALSE /\ agents_config = DefaultConfig
  /\ website_data = None /\ results = NoResults /\ tasks = <<>>
  /\ tstate = [s \in Stages |-> "new"] /\ attempts = [s \in Stages |-> 0]
  /\ sleep = 0 /\ ret = None /\ prev = NoCall /\ disturbed = FALSE
  /\ sec_requests = EmptyDict /\ sec_last_cleanup = 0
  /\ mem = <<>> /\ now = 0 /\ runs = [r \in RunIds |-> "idle"]
  /\ CompInit
  /\ last \in {[op |-> "none", backend |-> b] : b \in Backends}

NextCache ==
  \/ \E key \in MemKeys : DoMemGet(key)
  \/ \E key \in MemKeys, tl \in TtlChoices : DoMemSet(key, ValueFor(key), tl)
  \/ \E u \in Urls : DoCmGet(u, "full")
  \/ \E u \in Urls, value \in CmValues : DoCmSet(u, value, "full")
  \/ CacheTick

SpecCache == InitCache /\ [][NextCache]_vars

\* the keys stored in the MemoryCacheBackend, and the entry of one
MemKeySet(m) == {m[i].key : i \in DOMAIN m}
EntryOf(m, key) == m[MemIndex(m, key)]

\* C14: in MemoryCacheBackend a set of a key that is not stored, while the
\* cache holds max_size entries, evicts exactly one entry, one whose last
\* access (a set or a successful get) is not later than that of any other,
\* so the oldest one where the last accesses differ, and keeps every other
\* entry as it was; e.g. with max_size=2, set a, set b, get a, set c leaves
\* a and c stored and b evicted.
C14_LruEviction ==
  [][(/\ Len(mem) = max_size
      /\ \E k \in MemKeySet(mem') : k \notin MemKeySet(mem))
     => (/\ Len(mem') = max_size
         /\ \E e \in MemKeySet(mem) :
              /\ e \notin MemKeySet(mem')
              /\ \A o \in (MemKeySet(mem) \ {e}) :
                   /\ EntryOf(mem, o).last_accessed >= EntryOf(mem, e).last_accessed
                   /\ o \in MemKeySet(mem')
                   /\ EntryOf(mem', o) = EntryOf(mem, o))]_vars

\* a was stored before every other entry and read again later; the set that
\* found the cache full evicted b and kept a
C14_Witness ==
  /\ last.op = "set" /\ last.backend = "memory" /\ last.evicted = "b"
  /\ Len(mem) = max_size /\ mem[1].key = "a" /\ mem[Len(mem)].key = AllMemKeys[max_size + 1]
  /\ "b" \notin MemKeySet(mem)

\* C15: a cache get returns the stored value iff the key is present and its
\* entry has not expired at the time of the call; a get on an expired entry
\* returns nothing and removes the entry, so no value is returned once more
\* than its TTL has passed.  MemoryCacheBackend.get takes an entry to be
\* expired when its age is more than the TTL, the orchestrator's
\* CacheManager.get when its age has reached the TTL.
C15_GetLive ==
  [][(last'.op = "get" /\ now' = now)
     => IF last'.backend = "memory"
        THEN LET k == last'.key
                 present == MemIndex(mem, k) # 0
                 live == present /\ (EntryOf(mem, k).expires_at = NoExpiry
                                     \/ now <= EntryOf(mem, k).expires_at)
             IN /\ (last'.value # "None") <=> live
                /\ live => (last'.value = EntryOf(mem, k).value /\ MemIndex(mem', k) # 0)
                /\ (present /\ ~live) => MemIndex(mem', k) = 0
        ELSE LET k == last'.key
                 present == k \in DOMAIN cache
                 live == present /\ cache[k].age < ttl
             IN /\ (last'.value # None) <=> live
                /\ live => (last'.value = cache[k].result /\ cache' = cache)
                /\ (present /\ ~live) => k \notin DOMAIN cache']_vars

\* a get found an expired entry, returned nothing and removed it
C15_Witness ==
  /\ last.op = "get" /\ last.backend = "memory" /\ last.purged
  /\ last.value = "None" /\ MemIndex(mem, last.key) = 0

\* C11: analyze_website or get_quick_analysis called with use_cache=true
\* while a non-expired entry exists for (url, kind) returns that entry at
\* once: the rate limiter's recorded timestamps are unchanged, no scrape and
\* no agent stage is run, and cache_hits grows by one.
C11_CacheHitFrame ==
  [][(/\ ncalls' = ncalls + 1
      /\ kind' \in {"full", "quick"} /\ use_cache'
      /\ _generate_key(url', kind') \in DOMAIN cache
      /\ cache[_generate_key(url', kind')].age < ttl)
     => (/\ ret' = cache[_generate_key(url', kind')].result
         /\ pc' = "done"
         /\ requests' = requests
         /\ \A s \in Stages : tstate'[s] = "new"
         /\ website_data' = None
         /\ stats'.cache_hits = stats.cache_hits + 1
         /\ stats'.cache_misses = stats.cache_misses
         /\ cache' = cache)]_vars

\* a quick analysis was answered from the cache after the limiter recorded
\* the call that filled it
C11_Witness ==
  /\ pc = "done" /\ kind = "quick" /\ use_cache /\ stats.cache_hits = 1
  /\ \A s \in Stages : tstate[s] = "new"
  /\ "default" \in DOMAIN requests /\ Len(requests["default"]) = 1

\* C16 as stated: the status of a quick-analysis record is derived from the
\* outcomes of classification and summary: completed iff both succeeded,
\* partial iff exactly one succeeded, failed iff neither succeeded.
C16_Original ==
  (pc = "done" /\ kind = "quick" /\ IsRecord(ret)) =>
    LET ok == {a \in {"classifier", "summary"} : FieldOf(ret, a).success = TRUE}
    IN /\ (ret.status = "completed") <=> (Cardinality(ok) = 2)
       /\ (ret.status = "partial") <=> (Cardinality(ok) = 1)
       /\ (ret.status = "failed") <=> (Cardinality(ok) = 0)

\* the running call has taken a slot of the rate limiter
SlotTaken == "default" \in DOMAIN requests /\ requests["default"] # <<>>

\* C17 as stated: every analysis variant, full, quick and custom, acquires a
\* rate-limiter slot before the scraper is called, and with use_cache=true
\* stores its record in the cache under (url, kind) (where the cache has not
\* been cleared since).
C17_Original ==
  /\ tstate.scrape # "new" => SlotTaken
  /\ (pc = "done" /\ IsRecord(ret) /\ use_cache /\ cache # EmptyDict) =>
       /\ _generate_key(url, kind) \in DOMAIN cache
       /\ cache[_generate_key(url, kind)].result = ret

\* C18: the orchestrator cache key depends only on (url, analysis kind): an
\* entry holds a record of the url and the kind it is stored under, and a
\* call is only ever answered with a record of its own url and kind, so a
\* record stored by a full run is never returned to a quick call for the
\* same url, nor the other way round.
C18_CacheKey ==
  /\ \A u \in Urls, k \in {"full", "quick"} :
       _generate_key(u, k) \in DOMAIN cache =>
         /\ cache[_generate_key(u, k)].result.url = u
         /\ cache[_generate_key(u, k)].result.analysis_type = k
  /\ (pc = "done" /\ IsRecord(ret)) => (ret.url = url /\ ret.analysis_type = kind)

\* a quick call ran its own analysis while the full record of the same url
\* was in the cache, not expired
C18_Witness ==
  /\ pc = "done" /\ kind = "quick" /\ use_cache /\ IsRecord(ret)
  /\ tstate.scrape = "returned" /\ ret.analysis_type = "quick"
  /\ _generate_key(url, "full") \in DOMAIN cache
  /\ cache[_generate_key(url, "full")].age < ttl
  /\ cache[_generate_key(url, "full")].result.analysis_type = "full"

\* the error of the exhausted stage s has reached the caller of the stage:
\* the gather, which hands it on as a Failure, or the call, which ends
StageErrorReached(s) ==
  IF InSeq(s, tasks)
  THEN pc # "gather" => (results[s] # None /\ results[s].success = FALSE /\ Has(results[s], "error"))
  ELSE pc = "done" /\ IsTopError(ret)

\* C19: each retry-wrapped stage is attempted at most 3 times per call; a
\* further attempt is made only after the previous attempt raised; no
\* attempt follows an attempt that returned; and when all 3 attempts raise,
\* the error reaches the caller of the stage.
C19_Retry ==
  /\ [](\A s \in Stages :
          /\ attempts[s] \in 0..MaxAttempts
          /\ (tstate[s] = "raised") <=> (attempts[s] = MaxAttempts)
          /\ (tstate[s] = "sleeping") <=> (attempts[s] \in 1..(MaxAttempts - 1))
          /\ tstate[s] = "raised" => StageErrorReached(s))
  /\ [][\A s \in Stages :
          (ncalls' = ncalls /\ (attempts'[s] # attempts[s] \/ tstate'[s] # tstate[s]))
          => /\ tstate[s] \in {"new", "sleeping"}
             /\ attempts[s] < MaxAttempts
             /\ \/ attempts'[s] = attempts[s] + 1
                \/ (tstate'[s] = "returned" /\ attempts'[s] = 0)]_vars

\* the classifier raised on each of its three attempts and the call ended
\* with the error
C19_Witness ==
  /\ pc = "done" /\ kind = "full" /\ tstate.classifier = "raised"
  /\ attempts.classifier = MaxAttempts /\ IsTopError(ret)


\* ------------------------------------------- wait_for_slot, concurrent runs
\* Analysis runs of one orchestrator share its RateLimiter on the key
\* "default". A run is idle (no request in hand), polling (about to await
\* acquire, on entering wait_for_slot or after its sleep), sleeping (inside
\* asyncio.sleep(1)) or scraping (wait_for_slot has returned). acquire has no
\* suspension point, so a poll is one step of the event loop.
Waiting(r) == runs[r] \in {"polling", "sleeping"}

\* a request that missed the cache reaches `await wait_for_slot()`
RunCall(r) ==
  /\ runs[r] = "idle"
  /\ runs' = [runs EXCEPT ![r] = "polling"]
  /\ UNCHANGED <<callvars, cache, requests, sec_requests, sec_last_cleanup, mem, now, last, comp>>

\* one round of `while not await self.acquire(key): await asyncio.sleep(1)`
WaitPoll(r) ==
  /\ runs[r] = "polling"
  /\ requests' = acquire(requests, "default").requests
  /\ runs' = [runs EXCEPT ![r] = IF acquire(requests, "default").allowed THEN "scraping" ELSE "sleeping"]
  /\ last' = [op |-> "poll", run |-> r, allowed |-> acquire(requests, "default").allowed,
              others |-> {o \in RunIds \ {r} : Waiting(o)}]
  /\ UNCHANGED <<callvars, cache, sec_requests, sec_last_cleanup, mem, now, comp>>

\* one second passes: the recorded timestamps age and the sleeps end. The
\* event loop runs every ready poll before a second has gone by.
RunTick ==
  /\ \A r \in RunIds : runs[r] # "polling"
  /\ requests' = [k \in DOMAIN requests |->
                    [i \in DOMAIN requests[k] |-> Min(time_window, requests[k][i] + 1)]]
  /\ runs' = [r \in RunIds |-> IF runs[r] = "sleeping" THEN "polling" ELSE runs[r]]
  /\ last' = [op |-> "tick"]
  /\ UNCHANGED <<callvars, cache, sec_requests, sec_last_cleanup, mem, now, comp>>

\* the run goes on from scraping to its end; its worker takes the next request
RunFinish(r) ==
  /\ runs[r] = "scraping"
  /\ runs' = [runs EXCEPT ![r] = "idle"]
  /\ UNCHANGED <<callvars, cache, requests, sec_requests, sec_last_cleanup, mem, now, last, comp>>

InitWait ==
  /\ tool = "direct"
  /\ cache = EmptyDict /\ requests = EmptyDict /\ stats = ZeroStats
  /\ ncalls = 0 /\ pc = "idle"
  /\ kind = "none" /\ url = "" /\ use_cache = FALSE /\ agents_config = DefaultConfig
  /\ website_data = None /\ results = NoResults /\ tasks = <<>>
  /\ tstate = [s \in Stages |-> "new"] /\ attempts = [s \in Stages |-> 0]
  /\ sleep = 0 /\ ret = None /\ prev = NoCall /\ disturbed = FALSE
  /\ LibInit

NextWait ==
  \/ \E r \in RunIds : RunCall(r)
  \/ \E r \in RunIds : WaitPoll(r)
  \/ RunTick
  \/ \E r \in RunIds : RunFinish(r)

\* the clock advances, and the event loop runs every run that is ready to poll
SpecWait ==
  /\ InitWait
  /\ [][NextWait]_vars
  /\ WF_vars(RunTick)
  /\ \A r \in RunIds : WF_vars(WaitPoll(r))

\* C20 as stated: a run that calls wait_for_slot is never rejected (it leaves
\* the wait only by acquiring a slot) and, provided time keeps advancing
\* (max_requests >= 1 here), it eventually acquires a slot and goes on to
\* scraping, also while other runs wait for or take slots on the same key.
C20_Original ==
  /\ [][\A r \in RunIds : Waiting(r) => (Waiting(r)' \/ runs'[r] = "scraping")]_vars
  /\ \A r \in RunIds : []<>(last.op = "tick") => (Waiting(r) ~> (runs[r] = "scraping"))


\* ------------------------------------------ request threads, shared state
\* The Flask server handles each request in a thread of its own, and the
\* handler runs the orchestrator's coroutine with asyncio.run in that thread
\* (api/main.py 476-490). The orchestrator is one module-level object, and
\* its RateLimiter, CacheManager and stats take no lock, so the threads
\* interleave between the reads and the writes of one statement.
Admitted == {t \in RunIds : frames[t].pc = "admitted"}
Counted == {t \in RunIds : frames[t].pc \notin {"idle", "stat_loaded"}}
StartedAcquire == {t \in RunIds : frames[t].pc \in {"store", "check", "append"}}

\* what the threads leave alone
racefixed == <<tool, cache, ncalls, pc, kind, url, use_cache, agents_config, website_data, results, tasks, tstate, attempts, sleep, ret, prev, disturbed, sec_requests, sec_last_cleanup, mem, now, last, runs, cm_stats, tally, files, redis, api_cache, response>>

\* self.stats['total_analyses'] += 1, the read
LoadStat(t) ==
  /\ frames[t].pc = "idle"
  /\ frames' = [frames EXCEPT ![t] = [pc |-> "stat_loaded", loaded |-> stats.total_analyses]]
  /\ UNCHANGED <<requests, stats, racefixed>>

\* self.stats['total_analyses'] += 1, the write
StoreStat(t) ==
  /\ frames[t].pc = "stat_loaded"
  /\ stats' = [stats EXCEPT !.total_analyses = frames[t].loaded + 1]
  /\ frames' = [frames EXCEPT ![t] = [pc |-> "filter"]]
  /\ UNCHANGED <<requests, racefixed>>

\* acquire: the list comprehension over self.requests[key]
FilterOld(t) ==
  /\ frames[t].pc = "filter"
  /\ frames' = [frames EXCEPT ![t] = [pc |-> "store", kept |-> SeqFilterLt(Recorded(requests, "default"), time_window)]]
  /\ UNCHANGED <<requests, stats, racefixed>>

\* acquire: self.requests[key] = [...]
StoreKept(t) ==
  /\ frames[t].pc = "store"
  /\ requests' = [k \in DOMAIN requests \cup {"default"} |-> IF k = "default" THEN frames[t].kept ELSE requests[k]]
  /\ frames' = [frames EXCEPT ![t] = [pc |-> "check"]]
  /\ UNCHANGED <<stats, racefixed>>

\* acquire: if len(self.requests[key]) < self.max_requests
CheckLen(t) ==
  /\ frames[t].pc = "check"
  /\ frames' = [frames EXCEPT ![t] = [pc |-> IF Len(Recorded(requests, "default")) < max_requests THEN "append" ELSE "denied"]]
  /\ UNCHANGED <<requests, stats, racefixed>>

\* acquire: self.requests[key].append(now); return True
AppendNow(t) ==
  /\ frames[t].pc = "append"
  /\ requests' = [k \in DOMAIN requests \cup {"default"} |-> IF k = "default" THEN Append(Recorded(requests, "default"), 0) ELSE requests[k]]
  /\ frames' = [frames EXCEPT ![t] = [pc |-> "admitted"]]
  /\ UNCHANGED <<stats, racefixed>>


InitRace == InitWait

NextRace ==
  \/ \E t \in RunIds : LoadStat(t)
  \/ \E t \in RunIds : StoreStat(t)
  \/ \E t \in RunIds : FilterOld(t)
  \/ \E t \in RunIds : StoreKept(t)
  \/ \E t \in RunIds : CheckLen(t)
  \/ \E t \in RunIds : AppendNow(t)

SpecRace == InitRace /\ [][NextRace]_vars

\* C21 as stated: with several runs using the shared orchestrator at once,
\* the limiter and the statistics behave as if the operations ran one at a
\* time: never more than max_requests calls admitted within one window, a
\* timestamp recorded for every admitted call once no acquire is under way,
\* and total_analyses counting every run that has incremented it.
C21_Original ==
  /\ Cardinality(Admitted) <= max_requests
  /\ StartedAcquire = {} => Len(Recorded(requests, "default")) = Cardinality(Admitted)
  /\ stats.total_analyses = Cardinality(Counted)


\* ------------------------------------- cache_manager.CacheManager, by itself
\* The manager over a MemoryCacheBackend. A call on the backend goes well
\* ("ok"), raises ("raise": any CacheBackend may), or reports failure by
\* returning False ("false": what the file and Redis backends do on an error).
MgrKeys == {"a", "b"}
BackendFaults == {"ok", "raise", "false"}
\* config['cache_ttl']
cache_ttl == ttl - 1

\* the entries that are not expired, which size() and keys() leave stored
MemLive(m, t) == SelectSeq(m, LAMBDA e : ~is_expired(e, t))

Bump(st, counter) == [st EXCEPT ![counter] = @ + 1]

\* CacheManager.get: what it returns, the exception that leaves it, and
\* the statistics and the backend afterwards. A backend that fails without
\* raising returns None from get, which the manager counts as a miss.
ManagerGet(st, m, key, t, fault) ==
  IF fault = "raise"
  THEN [value |-> "None", exception |-> "None", stats |-> Bump(st, "errors"), backend |-> m]
  ELSE IF fault = "false"
  THEN [value |-> "None", exception |-> "None", stats |-> Bump(st, "misses"), backend |-> m]
  ELSE [value |-> MemGet(m, key, t).value, exception |-> "None",
        stats |-> IF MemGet(m, key, t).value # "None" THEN Bump(st, "hits") ELSE Bump(st, "misses"),
        backend |-> MemGet(m, key, t).cache]

\* ManagerSet that lets the backend's exception through
ManagerSetRaising(st, m, key, value, t, fault) ==
  IF fault = "ok"
  THEN [value |-> TRUE, exception |-> "None", stats |-> Bump(st, "sets"),
        backend |-> MemSet(m, key, value, t, cache_ttl)]
  ELSE IF fault = "raise"
  THEN [value |-> FALSE, exception |-> "Exception", stats |-> st, backend |-> m]
  ELSE [value |-> FALSE, exception |-> "None", stats |-> Bump(st, "errors"), backend |-> m]

\* CacheManager.set with ttl=None, which stores under config['cache_ttl']
ManagerSet(st, m, key, value, t, fault) ==
  IF fault = "ok"
  THEN [value |-> TRUE, exception |-> "None", stats |-> Bump(st, "sets"),
        backend |-> MemSet(m, key, value, t, cache_ttl)]
  ELSE [value |-> FALSE, exception |-> "None", stats |-> Bump(st, "errors"), backend |-> m]

\* ManagerDelete that counts a delete whatever the backend answered
ManagerDeleteCounted(st, m, key, fault) ==
  [value |-> (fault = "ok" /\ MemIndex(m, key) # 0), exception |-> "None", stats |-> Bump(st, "deletes"),
   backend |-> IF fault = "ok" THEN MemDelete(m, key) ELSE m]

\* CacheManager.delete: the backend returns False for a key it does not hold
ManagerDelete(st, m, key, fault) ==
  IF fault = "ok" /\ MemIndex(m, key) # 0
  THEN [value |-> TRUE, exception |-> "None", stats |-> Bump(st, "deletes"), backend |-> MemDelete(m, key)]
  ELSE [value |-> FALSE, exception |-> "None", stats |-> Bump(st, "errors"), backend |-> m]

\* CacheManager.clear
ManagerClear(st, m, fault) ==
  IF fault = "ok"
  THEN [value |-> TRUE, exception |-> "None", stats |-> ZeroCmStats, backend |-> <<>>]
  ELSE [value |-> FALSE, exception |-> "None", stats |-> Bump(st, "errors"), backend |-> m]

\* CacheManager.exists
ManagerExists(st, m, key, t, fault) ==
  IF fault = "raise"
  THEN [value |-> FALSE, exception |-> "None", stats |-> Bump(st, "errors"), backend |-> m]
  ELSE [value |-> (fault = "ok" /\ MemIndex(m, key) # 0 /\ ~is_expired(m[MemIndex(m, key)], t)),
        exception |-> "None", stats |-> st,
        backend |-> IF MemIndex(m, key) # 0 /\ is_expired(m[MemIndex(m, key)], t) THEN MemDelete(m, key) ELSE m]

\* CacheManager.get_stats: the snapshot (hit_rate in whole percent)
get_stats(st, m, t) ==
  [hits |-> st.hits, misses |-> st.misses, sets |-> st.sets, deletes |-> st.deletes,
   errors |-> st.errors,
   hit_rate |-> IF st.hits + st.misses > 0 THEN (st.hits * 100) \div (st.hits + st.misses) ELSE 0,
   size |-> Len(MemLive(m, t))]


\* what the calls on the manager leave alone
mgrfixed == <<callvars, cache, requests, sec_requests, sec_last_cleanup, now, runs, frames, files, redis, api_cache, response>>

\* the call made, the backend's behaviour, the statistics before it, and
\* what the call handed back
Outcome(op, fault, r) == [op |-> op, fault |-> fault, before |-> cm_stats, value |-> r.value, exception |-> r.exception]

Tallied(field) == [tally EXCEPT ![field] = @ + 1, !.calls = @ + 1]

DoManagerGet(key, fault) ==
  /\ tally.calls < MaxOps
  /\ LET r == ManagerGet(cm_stats, mem, key, now, fault) IN
     /\ cm_stats' = r.stats /\ mem' = r.backend
     /\ last' = Outcome("get", fault, r)
     /\ tally' = IF fault = "raise" THEN [tally EXCEPT !.calls = @ + 1]
                 ELSE IF r.value # "None" THEN [tally EXCEPT !.gets = @ + 1, !.found = @ + 1, !.calls = @ + 1]
                 ELSE Tallied("gets")
  /\ UNCHANGED mgrfixed

DoManagerSet(key, fault) ==
  /\ tally.calls < MaxOps
  /\ LET r == ManagerSet(cm_stats, mem, key, ValueFor(key), now, fault) IN
     /\ cm_stats' = r.stats /\ mem' = r.backend
     /\ last' = Outcome("set", fault, r)
     /\ tally' = IF r.value THEN Tallied("sets") ELSE [tally EXCEPT !.calls = @ + 1]
  /\ UNCHANGED mgrfixed

DoManagerDelete(key, fault) ==
  /\ tally.calls < MaxOps
  /\ LET r == ManagerDelete(cm_stats, mem, key, fault) IN
     /\ cm_stats' = r.stats /\ mem' = r.backend
     /\ last' = Outcome("delete", fault, r)
     /\ tally' = IF r.value THEN Tallied("deletes") ELSE [tally EXCEPT !.calls = @ + 1]
  /\ UNCHANGED mgrfixed

DoManagerClear(fault) ==
  /\ tally.calls < MaxOps
  /\ LET r == ManagerClear(cm_stats, mem, fault) IN
     /\ cm_stats' = r.stats /\ mem' = r.backend
     /\ last' = Outcome("clear", fault, r)
     /\ tally' = IF r.value THEN [ZeroTally EXCEPT !.calls = tally.calls + 1]
                 ELSE [tally EXCEPT !.calls = @ + 1]
  /\ UNCHANGED mgrfixed

DoManagerExists(key, fault) ==
  /\ tally.calls < MaxOps
  /\ LET r == ManagerExists(cm_stats, mem, key, now, fault) IN
     /\ cm_stats' = r.stats /\ mem' = r.backend
     /\ last' = Outcome("exists", fault, r)
     /\ tally' = [tally EXCEPT !.calls = @ + 1]
  /\ UNCHANGED mgrfixed

\* get_stats(): the snapshot, after backend.size() dropped what had expired
DoGetStats ==
  /\ tally.calls < MaxOps
  /\ mem' = MemLive(mem, now)
  /\ last' = [op |-> "get_stats", fault |-> "ok", before |-> cm_stats, value |-> get_stats(cm_stats, mem, now), exception |-> "None"]
  /\ tally' = [tally EXCEPT !.calls = @ + 1]
  /\ UNCHANGED <<cm_stats, mgrfixed>>

InitManager ==
  /\ InitWait

NextManager ==
  \/ \E key \in MgrKeys, fault \in BackendFaults : DoManagerGet(key, fault)
  \/ \E key \in MgrKeys, fault \in BackendFaults : DoManagerSet(key, fault)
  \/ \E key \in MgrKeys, fault \in BackendFaults : DoManagerDelete(key, fault)
  \/ \E fault \in BackendFaults : DoManagerClear(fault)
  \/ \E key \in MgrKeys, fault \in BackendFaults : DoManagerExists(key, fault)
  \/ DoGetStats
  \/ CacheTick

SpecManager == InitManager /\ [][NextManager]_vars


CmCounters == {"hits", "misses", "sets", "deletes", "errors"}

\* C22: since the last successful clear(), hits + misses is the number of
\* get calls in which the backend did not raise, hits the number of gets
\* that returned a value, sets the number of set calls that returned true
\* and deletes the number of delete calls that returned true; get_stats
\* reports exactly these counts; and a counter goes down only in a
\* successful clear(), which sets all of them to zero.
C22_Counters ==
  /\ [](/\ cm_stats.hits + cm_stats.misses = tally.gets
        /\ cm_stats.hits = tally.found
        /\ cm_stats.sets = tally.sets
        /\ cm_stats.deletes = tally.deletes
        /\ last.op = "get_stats" => \A c \in CmCounters : last.value[c] = cm_stats[c])
  /\ [][/\ (\E c \in CmCounters : cm_stats'[c] < cm_stats[c]) => (last'.op = "clear" /\ last'.value = TRUE)
        /\ (tally'.calls # tally.calls /\ last'.op = "clear" /\ last'.value = TRUE) => cm_stats' = ZeroCmStats]_vars

\* a hit, a miss and a set have been counted, and get_stats has reported them
C22_Witness ==
  /\ last.op = "get_stats"
  /\ last.value.hits = 1 /\ last.value.misses = 1 /\ last.value.sets = 1
  /\ tally.gets = 2 /\ tally.found = 1

\* C24: a failing backend never fails the caller. When the backend raises,
\* get returns None and exists returns False; when it raises or returns
\* False, set, delete and clear return False; in each of these cases errors
\* goes up by one; and no exception leaves the manager. (A backend that
\* fails inside get without raising returns None, which is a miss.)
C24_BackendFailure ==
  (last.op \in {"get", "set", "delete", "clear", "exists"} /\ last.fault # "ok") =>
    /\ last.exception = "None"
    /\ last.op = "get" => last.value = "None"
    /\ last.op # "get" => last.value = FALSE
    /\ (last.fault = "raise" \/ last.op \in {"set", "delete", "clear"}) =>
         cm_stats.errors = last.before.errors + 1
    /\ \A c \in CmCounters \ {"errors", "misses"} : cm_stats[c] = last.before[c]

\* the backend raised in set after an entry was stored and counted
C24_Witness ==
  /\ last.op = "set" /\ last.fault = "raise"
  /\ last.value = FALSE /\ cm_stats.errors = 1 /\ cm_stats.sets = 1


\* ------------------------------------------- the three cache backends
\* The same calls made on a MemoryCacheBackend, a FileCacheBackend and a
\* RedisCacheBackend that start empty and read the same clock. The files of
\* the cache directory and the keys of the Redis server are kept as
\* sequences of entries, as the dict of the memory backend is.
KeySet(m) == {m[i].key : i \in DOMAIN m}

\* MemoryCacheBackend.exists: the answer and the cache it leaves
MemExists(m, key, t) ==
  IF MemIndex(m, key) = 0 THEN [value |-> FALSE, cache |-> m]
  ELSE IF is_expired(m[MemIndex(m, key)], t) THEN [value |-> FALSE, cache |-> MemDelete(m, key)]
  ELSE [value |-> TRUE, cache |-> m]

\* FileCacheBackend.get: the file is unlinked when its entry has expired,
\* rewritten with the touched entry otherwise
FileGet(f, key, t) == MemGet(f, key, t)

\* FileCacheBackend.set: the entry is written to the file of the key,
\* whatever the number of files
FileSet(f, key, value, t, tl) ==
  LET entry == [key |-> key, value |-> value,
                expires_at |-> IF tl = NoExpiry THEN NoExpiry ELSE t + tl,
                last_accessed |-> t]
  IN IF MemIndex(f, key) = 0 THEN Append(f, entry) ELSE [f EXCEPT ![MemIndex(f, key)] = entry]

\* FileCacheBackend.exists
FileExists(f, key, t) == MemExists(f, key, t)

\* the keys the Redis server still holds at t: a key set with ex=ttl is
\* dropped by the server once the ttl has passed
RedisHeld(rd, t) == SelectSeq(rd, LAMBDA e : e.ex = NoExpiry \/ t <= e.ex)

\* RedisCacheBackend.get: an unexpired entry is written back with
\* set(key, data), which leaves the key without a server-side ttl
RedisGet(rd, key, t) ==
  LET held == RedisHeld(rd, t) IN
  IF MemIndex(held, key) = 0 THEN [value |-> "None", cache |-> held]
  ELSE IF is_expired(held[MemIndex(held, key)], t)
       THEN [value |-> "None", cache |-> MemDelete(held, key)]
       ELSE [value |-> held[MemIndex(held, key)].value,
             cache |-> [held EXCEPT ![MemIndex(held, key)].last_accessed = t,
                                    ![MemIndex(held, key)].ex = NoExpiry]]

\* RedisCacheBackend.set: set(key, data, ex=ttl)
RedisSet(rd, key, value, t, tl) ==
  LET held == RedisHeld(rd, t)
      entry == [key |-> key, value |-> value,
                expires_at |-> IF tl = NoExpiry THEN NoExpiry ELSE t + tl,
                last_accessed |-> t,
                ex |-> IF tl = NoExpiry THEN NoExpiry ELSE t + tl]
  IN IF MemIndex(held, key) = 0 THEN Append(held, entry) ELSE [held EXCEPT ![MemIndex(held, key)] = entry]

BackendOps == {"get", "set", "delete", "exists", "size", "keys"}

\* what op(key) returns from the memory backend, and the dict it leaves
MemoryCall(m, op, key, t, tl) ==
  CASE op = "get" -> MemGet(m, key, t)
    [] op = "set" -> [value |-> TRUE, cache |-> MemSet(m, key, ValueFor(key), t, tl)]
    [] op = "delete" -> [value |-> MemIndex(m, key) # 0, cache |-> MemDelete(m, key)]
    [] op = "exists" -> MemExists(m, key, t)
    [] op = "size" -> [value |-> Len(MemLive(m, t)), cache |-> MemLive(m, t)]
    [] OTHER -> [value |-> KeySet(MemLive(m, t)), cache |-> MemLive(m, t)]

\* what op(key) returns from the file backend, and the files it leaves
FileCall(f, op, key, t, tl) ==
  CASE op = "get" -> FileGet(f, key, t)
    [] op = "set" -> [value |-> TRUE, cache |-> FileSet(f, key, ValueFor(key), t, tl)]
    [] op = "delete" -> [value |-> MemIndex(f, key) # 0, cache |-> MemDelete(f, key)]
    [] op = "exists" -> FileExists(f, key, t)
    [] op = "size" -> [value |-> Len(MemLive(f, t)), cache |-> MemLive(f, t)]
    [] OTHER -> [value |-> KeySet(MemLive(f, t)), cache |-> MemLive(f, t)]

\* what op(key) returns from the Redis backend, and the keys it leaves:
\* exists, size and keys ask the server and never read an entry's expires_at
RedisCall(rd, op, key, t, tl) ==
  CASE op = "get" -> RedisGet(rd, key, t)
    [] op = "set" -> [value |-> TRUE, cache |-> RedisSet(rd, key, ValueFor(key), t, tl)]
    [] op = "delete" -> [value |-> MemIndex(RedisHeld(rd, t), key) # 0, cache |-> MemDelete(RedisHeld(rd, t), key)]
    [] op = "exists" -> [value |-> MemIndex(RedisHeld(rd, t), key) # 0, cache |-> RedisHeld(rd, t)]
    [] op = "size" -> [value |-> Len(RedisHeld(rd, t)), cache |-> RedisHeld(rd, t)]
    [] OTHER -> [value |-> KeySet(RedisHeld(rd, t)), cache |-> RedisHeld(rd, t)]

\* the same call made on the three backends
BackendsCall(op, key, tl) ==
  /\ tally.calls < MaxOps
  /\ mem' = MemoryCall(mem, op, key, now, tl).cache
  /\ files' = FileCall(files, op, key, now, tl).cache
  /\ redis' = RedisCall(redis, op, key, now, tl).cache
  /\ last' = [op |-> op, key |-> key,
              memory |-> MemoryCall(mem, op, key, now, tl).value,
              file |-> FileCall(files, op, key, now, tl).value,
              redis |-> RedisCall(redis, op, key, now, tl).value]
  /\ tally' = [tally EXCEPT !.calls = @ + 1]
  /\ UNCHANGED <<callvars, cache, requests, sec_requests, sec_last_cleanup, now, runs, frames, cm_stats, api_cache, response>>

InitBackends ==
  /\ InitWait

NextBackends ==
  \/ \E op \in BackendOps, key \in MemKeys, tl \in TtlChoices : BackendsCall(op, key, tl)
  \/ CacheTick

SpecBackends == InitBackends /\ [][NextBackends]_vars

\* C23 as stated: for the same sequence of set, get, delete, exists, size
\* and keys calls with the same keys, ttls, capacity and clock, the memory,
\* file and Redis backends hand the same result back to the caller.
C23_Original ==
  last.op \in BackendOps => (last.memory = last.file /\ last.file = last.redis)


\* ------------------------------------------------ cancellation of a call
\* The stages call the agents and the scraper synchronously, so a retry
\* wrapper suspends only in the wait between two attempts. A cancellation of
\* the call is delivered there as asyncio.CancelledError, which is a
\* BaseException and not an Exception.
Cancelled == [cancelled |-> TRUE]

\* a retry predicate that takes every exception
retry_if_exception_typeAny(exc) == TRUE

\* retry=retry_if_exception_type((Exception,))
retry_if_exception_type(exc) == exc = "Exception"

\* the call is cancelled while stage s waits between two attempts
Cancel(s) ==
  /\ pc \in {"scrape", "classify", "custom_classify", "gather", "design"}
  /\ tstate[s] = "sleeping"
  /\ last' = [op |-> "cancel", stage |-> s, attempts |-> attempts, tstate |-> tstate]
  /\ IF retry_if_exception_type("CancelledError")
     THEN UNCHANGED <<pc, ret>>
     ELSE pc' = "cancelled" /\ ret' = Cancelled
  /\ UNCHANGED <<tool, cache, requests, stats, ncalls, kind, url, use_cache, agents_config,
                 website_data, results, tasks, tstate, attempts, sleep, prev, disturbed,
                 sec_requests, sec_last_cleanup, mem, now, runs, comp>>

NextCancel ==
  \/ Next
  \/ \E s \in Stages : Cancel(s)

\* one analysis call that may be cancelled
SpecCancel == Init /\ [][NextCancel]_vars

\* C25: a stage interrupted by a cancellation is not attempted again,
\* whatever is left of its three attempts: the cancellation reaches the
\* caller, and no stage makes a further attempt or hands a result back.
C25_NoRetryOnCancel ==
  last.op = "cancel" =>
    /\ pc = "cancelled" /\ ret = Cancelled
    /\ attempts = last.attempts /\ tstate = last.tstate
    /\ attempts[last.stage] < MaxAttempts

\* a call was cancelled after the first attempt of one of its stages, with
\* two attempts left
C25_Witness ==
  /\ last.op = "cancel" /\ pc = "cancelled"
  /\ attempts[last.stage] = 1


\* C29 as stated: whenever the page fetch fails, with the direct
\* WebScrapingTool or with the CrewAI Tool, analyze_website and
\* get_quick_analysis start no agent, build no record and return a
\* top-level error.
C29_Original ==
  (/\ kind \in {"full", "quick"} /\ tstate.scrape = "returned"
   /\ website_data = ScrapeResult(tool, url, "fetch_failed"))
  => (/\ pc = "done" /\ Has(ret, "error")
      /\ \A a \in Agents : tstate[a] = "new" /\ results[a] = None)

\* the records stored in the orchestrator cache, without their ages
Stored(c) == [k \in DOMAIN c |-> c[k].result]

\* C30: a call of analyze_website or get_quick_analysis with
\* use_cache=false neither reads nor writes the orchestrator cache: from its
\* first step to its return the stored records stay as they were, no entry
\* is dropped or renewed, and cache_hits and cache_misses keep their values;
\* what it returns is the result of its own run.
C30_NoCacheUse ==
  [][((ncalls' = ncalls + 1 \/ pc \notin {"idle", "done"}) /\ ~use_cache' /\ kind' \in {"full", "quick"})
     => (/\ Stored(cache') = Stored(cache)
         /\ \A k \in DOMAIN cache : cache'[k].age >= cache[k].age
         /\ stats'.cache_hits = stats.cache_hits
         /\ stats'.cache_misses = stats.cache_misses
         /\ ncalls' = ncalls + 1 => pc' = "acquire")]_vars

\* a call with use_cache=false has returned its own record while the cache
\* still holds the older record stored for the same url and kind
C30_Witness ==
  /\ pc = "done" /\ ~use_cache /\ kind = "full" /\ ~Has(ret, "error")
  /\ _generate_key(url, kind) \in DOMAIN cache
  /\ cache[_generate_key(url, kind)].result # ret
  /\ stats.cache_misses = 1 /\ stats.cache_hits = 0 /\ stats.successful_analyses = 2


\* ------------------------------------------------ the agents by themselves
\* classify_website, summarize_website, review_ux and advise_design share
\* one loop: for attempt in range(self.max_retries), execute the task and
\* parse its result, return on success, return the Failure after the last
\* attempt, time.sleep(1) otherwise. advise_design alone has a guard in
\* front of the loop. `last` holds the call in progress: its entry point,
\* its classification context, the loop's position, the tasks executed and
\* the sleeps taken so far, and the result once it has returned.
max_retries == 3
LANDING_PAGE_TYPE == "landing_page"

EntryPoints == {"classify_website", "summarize_website", "review_ux", "advise_design"}

\* the type strings a classification context can carry
TypeStrings == WebsiteTypes \cup {"Landing_Page", "BLOG"}

\* str.lower()
Lower(s) ==
  CASE s = "Landing_Page" -> "landing_page"
    [] s = "BLOG" -> "blog"
    [] OTHER -> s

\* the classification contexts handed to an agent: none, an empty dict, the
\* classifier's Failure, a success without a classification or without a
\* type, and a success with each type
Contexts ==
  {None, EmptyDict,
   [success |-> FALSE, error |-> "classify failed", attempts |-> max_retries],
   [success |-> TRUE],
   [success |-> TRUE, classification |-> EmptyDict]}
  \cup {ClassifierSuccess(t) : t \in TypeStrings}

\* classify_website takes no classification context
ContextsOf(entry) == IF entry = "classify_website" THEN {None} ELSE Contexts

\* _is_landing_page that looks at the success flag only
_is_landing_pageAnySuccess(classification_context) ==
  /\ Truthy(classification_context)
  /\ Get(classification_context, "success", FALSE) = TRUE

\* DesignAdvisorAgent._is_landing_page
_is_landing_page(classification_context) ==
  IF ~Truthy(classification_context) \/ Get(classification_context, "success", FALSE) # TRUE
  THEN FALSE
  ELSE LET classification == Get(classification_context, "classification", EmptyDict)
           website_type == Lower(Get(classification, "type", ""))
       IN website_type = LANDING_PAGE_TYPE

\* the dict advise_design returns in front of its loop
NotLandingPage == [success |-> FALSE, error |-> "Design advice is only available for landing pages", is_landing_page |-> FALSE]

\* TaskSuccess that reports the loop's index
TaskSuccessIndex(entry, attempt) == [success |-> TRUE, payload |-> entry, attempt |-> attempt]

\* the dicts the loop returns
TaskSuccess(entry, attempt) == [success |-> TRUE, payload |-> entry, attempt |-> attempt + 1]
TaskFailure(entry) == [success |-> FALSE, error |-> entry \o " task failed", attempts |-> max_retries]

InAgent == last.op \in EntryPoints /\ last.pc # "returned"

agentfixed == <<callvars, cache, requests, sec_requests, sec_last_cleanup, mem, now, runs, frames, cm_stats, files, redis, api_cache, response>>

\* the call of an entry point, up to the head of its loop
AgentCall(entry, classification_context) ==
  /\ ~InAgent
  /\ tally.calls < MaxOps
  /\ classification_context \in ContextsOf(entry)
  /\ last' = IF entry = "advise_design" /\ ~_is_landing_page(classification_context)
             THEN [op |-> entry, context |-> classification_context, pc |-> "returned",
                   attempt |-> 0, executions |-> 0, sleeps |-> 0, result |-> NotLandingPage]
             ELSE [op |-> entry, context |-> classification_context, pc |-> "attempt",
                   attempt |-> 0, executions |-> 0, sleeps |-> 0, result |-> None]
  /\ tally' = [tally EXCEPT !.calls = @ + 1]
  /\ UNCHANGED agentfixed

\* one pass of the loop's body: task.execute() and the parse of its result
\* succeed, or one of them raises
ExecuteTask(ok) ==
  /\ InAgent /\ last.pc = "attempt"
  /\ last' = IF ok
             THEN [last EXCEPT !.executions = @ + 1, !.pc = "returned",
                               !.result = TaskSuccess(last.op, last.attempt)]
             ELSE IF last.attempt = max_retries - 1
             THEN [last EXCEPT !.executions = @ + 1, !.pc = "returned",
                               !.result = TaskFailure(last.op)]
             ELSE [last EXCEPT !.executions = @ + 1, !.pc = "sleep"]
  /\ UNCHANGED <<agentfixed, tally>>

\* time.sleep(1), then the next value of range(self.max_retries)
Backoff ==
  /\ InAgent /\ last.pc = "sleep"
  /\ last' = [last EXCEPT !.sleeps = @ + 1, !.attempt = @ + 1, !.pc = "attempt"]
  /\ UNCHANGED <<agentfixed, tally>>

InitAgents ==
  /\ InitWait

NextAgents ==
  \/ \E entry \in EntryPoints, classification_context \in Contexts : AgentCall(entry, classification_context)
  \/ \E ok \in BOOLEAN : ExecuteTask(ok)
  \/ Backoff

SpecAgents == InitAgents /\ [][NextAgents]_vars

\* C27: advise_design called with a classification context that is missing
\* (None or empty), that is not a success, or whose type (compared in lower
\* case, as every type the classifier produces is written) is not
\* landing_page, has returned the Failure "Design advice is only available
\* for landing pages" with no task executed and no attempt of the loop taken.
C27_NotLandingPage ==
  (/\ last.op = "advise_design"
   /\ \/ ~Truthy(last.context)
      \/ Get(last.context, "success", FALSE) # TRUE
      \/ Lower(Get(Get(last.context, "classification", EmptyDict), "type", "")) # "landing_page")
  => /\ last.pc = "returned"
     /\ last.result.success = FALSE
     /\ last.result.error = "Design advice is only available for landing pages"
     /\ last.executions = 0 /\ last.attempt = 0 /\ last.sleeps = 0

\* the test's case: a successful classification of type blog was refused
C27_Witness ==
  /\ last.op = "advise_design"
  /\ last.context = ClassifierSuccess("blog")
  /\ last.pc = "returned"
  /\ last.result = NotLandingPage


\* ----------------------------------------------------------- the Flask API
\* main.py serves POST /analyze (require_api_key, then the limiter, then
\* cache_response, then the handler, which runs the orchestrator), POST
\* /scrape (no decorator) and DELETE /cache (require_api_key). `response`
\* holds the request being served or served last: its endpoint, its number,
\* the API key it was served under, its JSON body, the handler's position,
\* the status answered and the part of the code that answered.
\* A JSON string is kept as its parts (a URL's scheme with "://", then the
\* rest), so that startswith is a test of the text; a JSON number is kept
\* apart from the strings.
JsonStr(parts) == [str |-> parts]
JsonNum(n) == [num |-> n]
IsStr(v) == DOMAIN v = {"str"}

\* str.startswith(prefixes)
startswith(parts, prefixes) == Len(parts) > 0 /\ parts[1] \in prefixes

HttpUrlOf(u) == JsonStr(<<"https://", u>>)

\* the url values a body can carry: an https URL, a URL of another scheme,
\* a text without scheme, the empty string, a number
UrlValues == {HttpUrlOf("u1"), JsonStr(<<"ftp://", "u1">>), JsonStr(<<"u1">>), JsonStr(<<>>), JsonNum(123)}

\* request.get_json() of a POST /scrape: no JSON body, {}, a dict without
\* url, a dict with url
ScrapeBodies == {None, EmptyDict, [href |-> HttpUrlOf("u1")]} \cup {[url |-> v] : v \in UrlValues}

\* request.get_json() of a POST /analyze: no JSON body, {}, a url pydantic's
\* HttpUrl refuses, and requests for u1 (analysis_depth is "full" and
\* use_cache true when absent)
AnalyzeBodies ==
  {None, EmptyDict, [url |-> JsonStr(<<"u1">>)],
   [url |-> HttpUrlOf("u1")],
   [url |-> HttpUrlOf("u1"), use_cache |-> FALSE],
   [url |-> HttpUrlOf("u1"), analysis_depth |-> "quick"],
   [url |-> HttpUrlOf("u1"), analysis_depth |-> "custom"]}

\* VALID_API_KEYS with the defaults of API_KEY_1 and API_KEY_2
VALID_API_KEYS == {"test-key-123", "admin-key-456"}

\* what a request carries in X-API-Key and in ?api_key= ("" when absent)
Credentials ==
  {[header |-> "", arg |-> ""], [header |-> "wrong-key", arg |-> "test-key-123"],
   [header |-> "", arg |-> "wrong-key"], [header |-> "", arg |-> "test-key-123"],
   [header |-> "test-key-123", arg |-> ""]}

\* what can happen to a request on its way: nothing, the limiter refuses
\* it, or request.get_json() raises (a request without a JSON body:
\* werkzeug's 415 or 400, depending on the Flask release and content type)
Faults == {"none", "rate_limited", "json_error"}

\* require_api_key that asks only for a key to be present
require_api_keyPresent(api_key) ==
  IF api_key = "" THEN "MISSING_API_KEY" ELSE "ok"

\* require_api_key: the error code of its 401, or "ok" when it calls f
require_api_key(api_key) ==
  IF api_key = "" THEN "MISSING_API_KEY"
  ELSE IF api_key \notin VALID_API_KEYS THEN "INVALID_API_KEY"
  ELSE "ok"

\* cache_response's key: md5 of f"{request.endpoint}:{request.get_json()}:{g.api_key}"
ApiCacheKey(endpoint, body, api_key) == <<endpoint, body, api_key>>

\* cache_response's lookup: the entry is served while younger than ttl
\* (3600 in the code, as the orchestrator's cache; scaled with it)
ApiCacheHit(c, key) == key \in DOMAIN c /\ c[key].age < ttl

\* AnalysisRequest(**request_data): url is an HttpUrl
ValidAnalysisRequest(body) ==
  /\ Has(body, "url")
  /\ IsStr(body.url)
  /\ startswith(body.url.str, {"http://", "https://"})
  /\ Len(body.url.str) > 1

Served(op, api_key, body, status, by, invoked) ==
  [op |-> op, seq |-> tally.calls + 1, api_key |-> api_key, body |-> body, pc |-> "returned",
   status |-> status, by |-> by, invoked |-> invoked, call |-> ncalls]

Serving == Has(response, "pc") /\ response.pc = "handler"

apifixed == <<sec_requests, sec_last_cleanup, mem, now, last, runs, frames, cm_stats, files, redis>>

\* request.headers.get('X-API-Key') or request.args.get('api_key')
ApiKeyOf(cred) == IF cred.header # "" THEN cred.header ELSE cred.arg

\* POST /analyze up to the orchestrator's call: require_api_key, the
\* limiter (the key's rate limit is used up or not), cache_response's
\* lookup, the handler's validation.
ApiAnalyze(cred, body, fault) ==
  LET api_key == ApiKeyOf(cred)
      key == ApiCacheKey("analyze_website", body, api_key)
      limited == fault = "rate_limited"
      json_error == fault = "json_error"
  IN
  /\ ~Serving /\ pc \in {"idle", "done"}
  /\ tally.calls < MaxRequests
  /\ tally' = [tally EXCEPT !.calls = @ + 1]
  /\ json_error => body = None
  /\ UNCHANGED <<callvars, cache, requests, apifixed, api_cache>>
  /\ IF require_api_key(api_key) # "ok"
     THEN response' = Served("analyze", api_key, body, 401, require_api_key(api_key), FALSE)
     ELSE IF limited
     THEN response' = Served("analyze", api_key, body, 429, "limiter", FALSE)
     ELSE IF json_error
     THEN response' = Served("analyze", api_key, body, 415, "get_json", FALSE)
     ELSE IF ApiCacheHit(api_cache, key)
     THEN response' = Served("analyze", api_key, body, 200, "cache_response", FALSE)
     ELSE IF ~Truthy(body)
     THEN response' = Served("analyze", api_key, body, 400, "MISSING_BODY", FALSE)
     ELSE IF ~ValidAnalysisRequest(body)
     THEN response' = Served("analyze", api_key, body, 400, "VALIDATION_ERROR", FALSE)
     ELSE /\ ncalls < MaxCalls
          /\ response' = [Served("analyze", api_key, body, 0, "handler", FALSE)
                            EXCEPT !.pc = "handler", !.call = ncalls + 1]

\* the handler's asyncio.run(...) of the analysis the body asks for
HandlerCall ==
  /\ Serving /\ ncalls < response.call
  /\ Call(Get(response.body, "analysis_depth", "full"), response.body.url.str[2],
          Get(response.body, "use_cache", TRUE), DefaultConfig)

\* ApiRespond with a cache_response that stores whatever the handler answers
ApiRespondStoringAll ==
  /\ Serving /\ ncalls = response.call /\ pc = "done"
  /\ LET status == IF Has(ret, "error") THEN 500 ELSE 200
         key == ApiCacheKey("analyze_website", response.body, response.api_key)
     IN /\ response' = [response EXCEPT !.pc = "returned", !.status = status,
                                        !.by = IF status = 500 THEN "ANALYSIS_ERROR" ELSE "handler"]
        /\ api_cache' = [k \in DOMAIN api_cache \cup {key} |->
                           IF k = key THEN [data |-> ret, age |-> 0] ELSE api_cache[k]]
  /\ UNCHANGED <<callvars, cache, requests, apifixed, tally>>

\* the handler's answer once the analysis has returned, and cache_response's
\* store of a 200
ApiRespond ==
  /\ Serving /\ ncalls = response.call /\ pc = "done"
  /\ LET status == IF Has(ret, "error") THEN 500 ELSE 200
         key == ApiCacheKey("analyze_website", response.body, response.api_key)
     IN /\ response' = [response EXCEPT !.pc = "returned", !.status = status,
                                        !.by = IF status = 500 THEN "ANALYSIS_ERROR" ELSE "handler"]
        /\ api_cache' = IF status = 200
                        THEN [k \in DOMAIN api_cache \cup {key} |->
                                IF k = key THEN [data |-> ret, age |-> 0] ELSE api_cache[k]]
                        ELSE api_cache
  /\ UNCHANGED <<callvars, cache, requests, apifixed, tally>>

\* POST /scrape, whole: the limiter's default limit, then the handler.
\* With the fault json_error request.get_json() raises inside the handler's
\* try; outcome is what the scraper does when it is called.
ApiScrape(body, fault, outcome) ==
  LET limited == fault = "rate_limited"
      json_error == fault = "json_error"
  IN
  /\ ~Serving /\ pc \in {"idle", "done"}
  /\ tally.calls < MaxOps
  /\ tally' = [tally EXCEPT !.calls = @ + 1]
  /\ json_error => body = None
  /\ UNCHANGED <<callvars, cache, requests, apifixed, api_cache>>
  /\ IF limited
     THEN response' = Served("scrape", "", body, 429, "limiter", FALSE)
     ELSE IF json_error
     THEN response' = Served("scrape", "", body, 500, "except", FALSE)
     ELSE IF ~Truthy(body) \/ ~Has(body, "url")
     THEN response' = Served("scrape", "", body, 400, "URL is required", FALSE)
     ELSE IF ~IsStr(body.url)
     THEN response' = Served("scrape", "", body, 500, "except", FALSE)
     ELSE IF ~startswith(body.url.str, {"http://", "https://"})
     THEN response' = Served("scrape", "", body, 400, "Invalid URL format", FALSE)
     ELSE IF tool = "crewai"
     THEN response' = Served("scrape", "", body, 500, "except", FALSE)
     ELSE IF outcome = "ok"
     THEN response' = Served("scrape", "", body, 200, "handler", TRUE)
     ELSE response' = Served("scrape", "", body, 500, IF outcome = "raise" THEN "except" ELSE "handler", TRUE)

\* DELETE /cache: require_api_key, then both caches are cleared
ApiClearCache(cred) ==
  LET api_key == ApiKeyOf(cred) IN
  /\ ~Serving /\ pc \in {"idle", "done"}
  /\ tally.calls < MaxRequests
  /\ tally' = [tally EXCEPT !.calls = @ + 1]
  /\ IF require_api_key(api_key) # "ok"
     THEN /\ response' = Served("clear_cache", api_key, None, 401, require_api_key(api_key), FALSE)
          /\ UNCHANGED <<cache, api_cache, disturbed>>
     ELSE /\ response' = Served("clear_cache", api_key, None, 200, "handler", FALSE)
          /\ cache' = EmptyDict
          /\ api_cache' = EmptyDict
          /\ disturbed' = Tracked
  /\ UNCHANGED <<tool, requests, stats, ncalls, pc, kind, url, use_cache, agents_config,
                 website_data, results, tasks, tstate, attempts, sleep, ret, prev, apifixed>>

\* one second passes, for the orchestrator as in Tick and for api_cache
ApiTick ==
  /\ pc \in {"idle", "done", "acquire", "finish"}
  /\ cache' = [k \in DOMAIN cache |-> [cache[k] EXCEPT !.age = Min(ttl, @ + 1)]]
  /\ requests' = [k \in DOMAIN requests |->
                    [i \in DOMAIN requests[k] |-> Min(time_window, requests[k][i] + 1)]]
  /\ api_cache' = [k \in DOMAIN api_cache |-> [api_cache[k] EXCEPT !.age = Min(ttl, @ + 1)]]
  /\ sleep' = 0
  /\ disturbed' = (disturbed \/ (Tracked /\ Expires(cache, _generate_key(url, kind))))
  /\ UNCHANGED <<tool, stats, ncalls, pc, kind, url, use_cache, agents_config, website_data,
                 results, tasks, tstate, attempts, ret, prev, apifixed, tally, response>>

\* The API on the orchestrator with the direct scraper, the scraper fetching
\* the page or failing, the agents working, the page a landing page.
InitApi ==
  /\ InitWait

NextApi ==
  \/ \E cred \in Credentials, body \in AnalyzeBodies, fault \in Faults : ApiAnalyze(cred, body, fault)
  \/ HandlerCall
  \/ WaitForSlot
  \/ \E outcome \in {"ok", "fetch_failed"} : Scrape(outcome)
  \/ Classify(FALSE, ClassifierSuccess("landing_page"))
  \/ \E t \in Agents : \E r \in Successes(t) : TaskStep(t, FALSE, r)
  \/ GatherDone
  \/ \E r \in Successes("design_advisor") : Design(FALSE, r)
  \/ Finish
  \/ ApiRespond
  \/ \E cred \in Credentials : ApiClearCache(cred)
  \/ ApiTick

SpecApi == InitApi /\ [][NextApi]_vars

\* POST /scrape by itself, on the orchestrator as constructed
InitScrape ==
  /\ Init

NextScrape ==
  \/ \E body \in ScrapeBodies, fault \in Faults, outcome \in ScrapeOutcomes : ApiScrape(body, fault, outcome)

SpecScrape == InitScrape /\ [][NextScrape]_vars


\* C26: a POST /analyze whose API key is absent or not in VALID_API_KEYS is
\* answered 401 by require_api_key in the step that receives it, and that
\* step leaves the response cache, the orchestrator's cache, limiter and
\* statistics and the position of the orchestrator (no scrape, no agent)
\* as they were; no request is ever in the handler under such a key.
C26_NoKeyNoEntry ==
  /\ [](Serving => response.api_key \in VALID_API_KEYS)
  /\ [][(/\ tally'.calls # tally.calls
         /\ response'.op = "analyze"
         /\ response'.api_key \notin VALID_API_KEYS)
        => (/\ response'.status = 401
            /\ response'.pc = "returned"
            /\ UNCHANGED <<api_cache, cache, requests, stats, ncalls, pc, ret,
                           website_data, results, tasks, tstate, attempts>>)]_vars

\* a request with a wrong key was refused although the response cache held
\* the answer to the same body
C26_Witness ==
  /\ Has(response, "op") /\ response.op = "analyze"
  /\ response.api_key = "wrong-key"
  /\ response.body = [url |-> HttpUrlOf("u1")]
  /\ response.status = 401
  /\ ApiCacheHit(api_cache, ApiCacheKey("analyze_website", response.body, "test-key-123"))

\* C28 as stated: a POST /scrape whose body is missing, has no url field, or
\* whose url does not start with http:// or https:// has been answered 400
\* without a call of the scraper.
C28_Original ==
  (/\ Has(response, "op") /\ response.op = "scrape"
   /\ \/ ~Truthy(response.body)
      \/ ~Has(response.body, "url")
      \/ ~(IsStr(response.body.url) /\ startswith(response.body.url.str, {"http://", "https://"})))
  => (response.status = 400 /\ ~response.invoked)


\* C31: a call of classify_website, summarize_website, review_ux or
\* advise_design executes its task at most max_retries times, one execution
\* per pass of the loop and none after it returned; a Success carries
\* attempt = the executions made (the last of them the only one that
\* worked), a Failure of the loop carries attempts = max_retries after
\* max_retries executions, and the call ends in a returned dict, never in
\* an exception.
C31_RetryLoop ==
  /\ [](last.op \in EntryPoints =>
          /\ last.executions <= max_retries
          /\ last.pc \in {"attempt", "sleep", "returned"}
          /\ last.pc = "returned" =>
               /\ last.result.success \in BOOLEAN
               /\ last.result.success =>
                    (last.result.attempt = last.executions /\ last.sleeps = last.executions - 1)
               /\ (~last.result.success /\ last.result # NotLandingPage) =>
                    (last.result.attempts = max_retries /\ last.executions = max_retries))
  /\ [][(last.op \in EntryPoints /\ last'.op \in EntryPoints /\ tally' = tally) =>
          /\ last.pc # "returned"
          /\ last'.executions \in {last.executions, last.executions + 1}
          /\ (last'.pc = "returned" /\ last'.result.success) => last'.executions = last.executions + 1]_vars

\* classify_website failed once and returned the Success of its second
\* execution
C31_Witness ==
  /\ last.op = "classify_website"
  /\ last.pc = "returned"
  /\ last.result.success
  /\ last.result.attempt = 2 /\ last.executions = 2

\* all max_retries executions of review_ux failed
C31_WitnessFailure ==
  /\ last.op = "review_ux"
  /\ last.pc = "returned"
  /\ ~last.result.success
  /\ last.executions = max_retries


\* ------------------------------------- the MemoryCacheBackend by itself
\* Every operation of MemoryCacheBackend on one backend object, whose
\* max_size is what its constructor was given: any capacity from 0 up to
\* the bound. `last` holds the object's max_size with the last operation,
\* its key and whether the key was stored when it was called.
Capacities == 0..max_size

\* MemoryCacheBackend.set that makes room whenever the cache is full
MemorySetEvicting(m, key, value, t, tl, cap) ==
  LET entry == [key |-> key, value |-> value,
                expires_at |-> IF tl = NoExpiry THEN NoExpiry ELSE t + tl,
                last_accessed |-> t]
      room == IF Len(m) >= cap THEN _evict_lru(m) ELSE m
  IN IF MemIndex(room, key) = 0 THEN Append(room, entry)
     ELSE [room EXCEPT ![MemIndex(room, key)] = entry]

\* MemoryCacheBackend.set on a backend of max_size cap
MemorySet(m, key, value, t, tl, cap) ==
  LET entry == [key |-> key, value |-> value,
                expires_at |-> IF tl = NoExpiry THEN NoExpiry ELSE t + tl,
                last_accessed |-> t]
      room == IF Len(m) >= cap /\ MemIndex(m, key) = 0 THEN _evict_lru(m) ELSE m
  IN IF MemIndex(room, key) = 0 THEN Append(room, entry)
     ELSE [room EXCEPT ![MemIndex(room, key)] = entry]

memfixed == <<callvars, cache, requests, sec_requests, sec_last_cleanup, now, runs, frames, cm_stats, files, redis, api_cache, response>>

\* get, set, delete, exists, size or keys (ttl is an argument of set, key
\* of all but size and keys)
MemoryOp(op, key, tl) ==
  /\ tally.calls < MaxOps
  /\ op # "set" => tl = NoExpiry
  /\ op \in {"size", "keys"} => key = "a"
  /\ tally' = [tally EXCEPT !.calls = @ + 1]
  /\ mem' = IF op = "set" THEN MemorySet(mem, key, ValueFor(key), now, tl, last.max_size)
            ELSE MemoryCall(mem, op, key, now, tl).cache
  /\ last' = [op |-> op, key |-> key, backend |-> "memory", max_size |-> last.max_size,
              stored |-> MemIndex(mem, key) # 0]
  /\ UNCHANGED memfixed

\* MemoryCacheBackend.clear
MemoryClear ==
  /\ tally.calls < MaxOps
  /\ tally' = [tally EXCEPT !.calls = @ + 1]
  /\ mem' = <<>>
  /\ last' = [op |-> "clear", key |-> "", backend |-> "memory", max_size |-> last.max_size,
              stored |-> FALSE]
  /\ UNCHANGED memfixed

InitMemory ==
  /\ tool = "direct"
  /\ cache = EmptyDict /\ requests = EmptyDict /\ stats = ZeroStats
  /\ ncalls = 0 /\ pc = "idle"
  /\ kind = "none" /\ url = "" /\ use_cache = FALSE /\ agents_config = DefaultConfig
  /\ website_data = None /\ results = NoResults /\ tasks = <<>>
  /\ tstate = [s \in Stages |-> "new"] /\ attempts = [s \in Stages |-> 0]
  /\ sleep = 0 /\ ret = None /\ prev = NoCall /\ disturbed = FALSE
  /\ sec_requests = EmptyDict /\ sec_last_cleanup = 0
  /\ mem = <<>> /\ now = 0 /\ runs = [r \in RunIds |-> "idle"]
  /\ CompInit
  /\ last \in {[op |-> "none", key |-> "", backend |-> "memory", max_size |-> c, stored |-> FALSE] :
                 c \in Capacities}

NextMemory ==
  \/ \E op \in BackendOps, key \in MemKeys, tl \in TtlChoices : MemoryOp(op, key, tl)
  \/ MemoryClear
  \/ CacheTick

SpecMemory == InitMemory /\ [][NextMemory]_vars

\* C32: a set of a key that is stored leaves as many entries as there were,
\* in the same order, and every entry under another key as it was (value,
\* expiry, last access), also when the cache holds max_size entries.
C32_OverwriteInPlace ==
  [][(last'.op = "set" /\ last'.stored /\ now' = now)
     => /\ Len(mem') = Len(mem)
        /\ \A i \in DOMAIN mem :
             /\ mem'[i].key = mem[i].key
             /\ mem[i].key # last'.key => mem'[i] = mem[i]
        /\ mem'[MemIndex(mem, last'.key)].last_accessed = now]_vars

\* the cache was full, a was stored before b, and the last operation set a
\* again: both are stored, a in its place with the later access
C32_Witness ==
  /\ last.op = "set" /\ last.stored /\ last.key = "a"
  /\ last.max_size = max_size
  /\ Len(mem) = max_size
  /\ mem[1].key = "a"
  /\ mem[1].last_accessed > mem[2].last_accessed

\* C33 as stated: a MemoryCacheBackend of any max_size never holds more than
\* max_size entries.
C33_Original ==
  Len(mem) <= last.max_size


\* C34: after an acquire or is_allowed call for key k, the timestamps stored
\* for k all lie within the window that ends at the call and are at most
\* max_requests (max_requests_per_window for is_allowed); an acquire changes
\* the timestamps of no other key of the orchestrator's limiter and adds no
\* key but k, and no step adds to or drops from the timestamps of a key
\* but an acquire for that key.
C34_WindowBound ==
  /\ [](last.op \in {"acquire", "is_allowed"} =>
          /\ Len(last.after) <= LastLimit
          /\ \A i \in DOMAIN last.after : last.after[i] < LastWindow)
  /\ [][(last'.op = "acquire" /\ last' # last) =>
          /\ requests'[last'.key] = last'.after
          /\ DOMAIN requests' = DOMAIN requests \cup {last'.key}
          /\ \A k \in DOMAIN requests \ {last'.key} : requests'[k] = requests[k]]_vars
  /\ [][\A k \in DOMAIN requests :
          (k \notin DOMAIN requests' \/ Len(requests'[k]) # Len(requests[k]))
            => (last'.op = "acquire" /\ last'.key = k)]_vars

\* an acquire dropped the timestamps of its key that had left the window
\* and recorded the call, while another key kept its own
C34_Witness ==
  /\ last.op = "acquire" /\ last.allowed
  /\ Len(last.before) = max_requests
  /\ last.after = <<0>>
  /\ \E k \in DOMAIN requests \ {last.key} : requests[k] # <<>>


\* a step of the security limiter that is an is_allowed call, not a second
\* of the clock: it restarts the cleanup interval or leaves its age alone
IsAllowedStep ==
  /\ last'.op = "is_allowed"
  /\ \/ sec_last_cleanup' = 0 /\ sec_last_cleanup > 0
     \/ sec_last_cleanup' = sec_last_cleanup /\ sec_last_cleanup <= _cleanup_interval

\* C35: the timestamps of a key of the security limiter are dropped, or the
\* key removed, other than by the pruning of the called key, only in an
\* is_allowed call made more than _cleanup_interval after the last cleanup,
\* which then restarts the interval; an is_allowed call made earlier leaves
\* every other key as it is; the cleanup keeps of every other key exactly
\* the timestamps younger than twice the window and removes the key iff
\* none is left, so the timestamps inside the trailing window, which alone
\* decide whether a later request is allowed, are the same before and after.
C35_LazyCleanup ==
  [][/\ (\E k \in DOMAIN sec_requests :
           \/ k \notin DOMAIN sec_requests'
           \/ (Len(sec_requests'[k]) # Len(sec_requests[k]) /\ k # last'.key))
        => (/\ IsAllowedStep
            /\ sec_last_cleanup > _cleanup_interval
            /\ sec_last_cleanup' = 0)
     /\ IsAllowedStep
        => \A k \in DOMAIN sec_requests \ {last'.key} :
             IF sec_last_cleanup > _cleanup_interval
             THEN /\ Recorded(sec_requests', k) = Pruned(sec_requests[k], 2 * rate_limit_window)
                  /\ k \in DOMAIN sec_requests' <=> Pruned(sec_requests[k], 2 * rate_limit_window) # <<>>
                  /\ Pruned(Recorded(sec_requests', k), rate_limit_window) = Pruned(sec_requests[k], rate_limit_window)
             ELSE k \in DOMAIN sec_requests' /\ sec_requests'[k] = sec_requests[k]]_vars

\* the cleanup ran in a call for k1, whose only timestamp was twice the
\* window old, and kept a timestamp of k2 that had left the window but was
\* younger than that
C35_Witness ==
  /\ last.op = "is_allowed" /\ last.key = "k1"
  /\ last.before = <<2 * rate_limit_window>>
  /\ sec_last_cleanup = 0
  /\ "k2" \in DOMAIN sec_requests
  /\ \E i \in DOMAIN sec_requests["k2"] :
       sec_requests["k2"][i] >= rate_limit_window /\ sec_requests["k2"][i] < 2 * rate_limit_window


\* ------------------------------------------------------------------------
\* The statistics of the orchestrator over calls made one after the other:
\* analyze_website and get_quick_analysis for one url, with and without the
\* cache, the scraper fetching, failing or raising, every agent stage
\* returning a Success or raising until its retries are used up.
NextStats ==
  \/ \E k \in {"full", "quick"}, uc \in BOOLEAN :
       /\ ncalls < MaxCalls
       /\ Call(k, "u1", uc, DefaultConfig)
  \/ WaitForSlot
  \/ \E outcome \in ScrapeOutcomes : Scrape(outcome)
  \/ \E r \in Successes("classifier") : Classify(FALSE, r)
  \/ Classify(TRUE, None)
  \/ \E t \in Agents : \E r \in Successes(t) : TaskStep(t, FALSE, r)
  \/ \E t \in Agents : TaskStep(t, TRUE, None)
  \/ GatherDone
  \/ \E r \in Successes("design_advisor") : Design(FALSE, r)
  \/ Design(TRUE, None)
  \/ Finish
  \/ Tick

SpecStats == InitWait /\ [][NextStats]_vars

\* C36: between calls total_analyses is the sum of successful_analyses,
\* failed_analyses and cache_hits, each call having counted itself once in
\* total_analyses when it began and once in exactly one of the three when
\* it returned; a call with use_cache adds one to cache_hits + cache_misses,
\* a call without it and every later step of a call leave the two alone, so
\* their sum is the number of calls made with use_cache.
C36_StatsIdentity ==
  /\ [](pc \in {"idle", "done"}
          => /\ stats.total_analyses = ncalls
             /\ stats.total_analyses
                  = stats.successful_analyses + stats.failed_analyses + stats.cache_hits)
  /\ [][LET lookups(st) == st.cache_hits + st.cache_misses
            outcomes(st) == st.successful_analyses + st.failed_analyses + st.cache_hits
        IN  IF ncalls' = ncalls + 1
            THEN /\ stats'.total_analyses = stats.total_analyses + 1
                 /\ lookups(stats') = lookups(stats) + (IF use_cache' THEN 1 ELSE 0)
                 /\ stats'.cache_hits >= stats.cache_hits
                 /\ outcomes(stats') = outcomes(stats) + (IF pc' = "done" THEN 1 ELSE 0)
            ELSE /\ stats'.total_analyses = stats.total_analyses
                 /\ stats'.cache_hits = stats.cache_hits
                 /\ stats'.cache_misses = stats.cache_misses
                 /\ stats'.successful_analyses >= stats.successful_analyses
                 /\ stats'.failed_analyses >= stats.failed_analyses
                 /\ outcomes(stats')
                      = outcomes(stats) + (IF pc # "done" /\ pc' = "done" THEN 1 ELSE 0)]_vars

\* a call without the cache that failed was followed by a call that missed
\* the cache and succeeded
C36_Witness ==
  /\ pc = "done"
  /\ use_cache
  /\ stats.total_analyses = 2
  /\ stats.failed_analyses = 1
  /\ stats.successful_analyses = 1
  /\ stats.cache_misses = 1
  /\ stats.cache_hits = 0
  /\ ~Has(ret, "error")

\* a call that stored its record was followed by a call that hit the cache
C36_WitnessHit ==
  /\ pc = "done"
  /\ stats.total_analyses = 2
  /\ stats.successful_analyses = 1
  /\ stats.cache_hits = 1
  /\ stats.cache_misses = 1


\* ------------------------------------------------------------------------
\* analyze_website calls that overlap.  The calls are coroutines of one
\* event loop on one orchestrator; a call is suspended only at its awaits
\* (wait_for_slot's sleep, the scraper, the agents), so the code from the
\* entry to `await wait_for_slot()` is one step and the code from the last
\* agent result to the return is one step.  Every call is
\* analyze_website("u1", use_cache=True); a record carries the number of
\* the call that built it where the code puts time.time().
OverlapRuns == {"r1", "r2"}
OverlapUrl == "u1"
OverlapResults ==
  [a \in Agents |->
     CASE a = "classifier" -> ClassifierSuccess("blog")
       [] a = "design_advisor" -> None
       [] OTHER -> AgentSuccess(a)]

overlapfixed == <<tool, pc, kind, url, use_cache, agents_config, website_data, results, tasks, tstate, attempts, sleep, ret, prev, disturbed, sec_requests, sec_last_cleanup, mem, now, runs, cm_stats, tally, files, redis, api_cache, response>>

InFlight(t) == frames[t].pc \notin {"idle", "returned"}

\* the call begins: total_analyses, the cache lookup, and the return of the
\* cached record or the way to wait_for_slot
OverlapCall(t) ==
  /\ ~InFlight(t)
  /\ ncalls < MaxOps
  /\ ncalls' = ncalls + 1
  /\ LET got == CacheGet(cache, OverlapUrl, "full") IN
     /\ cache' = got.cache
     /\ IF Truthy(got.value)
        THEN /\ stats' = [stats EXCEPT !.total_analyses = @ + 1, !.cache_hits = @ + 1]
             /\ frames' = [frames EXCEPT ![t] =
                             [pc |-> "returned", call |-> ncalls + 1, from |-> "cache",
                              acquired |-> 0, scraped |-> 0, agents |-> 0,
                              data |-> None, ret |-> got.value]]
        ELSE /\ stats' = [stats EXCEPT !.total_analyses = @ + 1, !.cache_misses = @ + 1]
             /\ frames' = [frames EXCEPT ![t] =
                             [pc |-> "polling", call |-> ncalls + 1, from |-> "run",
                              acquired |-> 0, scraped |-> 0, agents |-> 0,
                              data |-> None, ret |-> None]]
  /\ UNCHANGED <<requests, last, overlapfixed>>

\* one round of `while not await self.acquire(key): await asyncio.sleep(1)`
OverlapPoll(t) ==
  /\ frames[t].pc = "polling"
  /\ LET a == acquire(requests, "default") IN
     /\ requests' = a.requests
     /\ frames' = [frames EXCEPT ![t].pc = IF a.allowed THEN "scrape" ELSE "sleeping",
                                 ![t].acquired = IF a.allowed THEN @ + 1 ELSE @]
  /\ UNCHANGED <<cache, stats, ncalls, last, overlapfixed>>

\* _scrape_website_with_retry returns the page or the scraper's error, and
\* the error ends the call
OverlapScrape(t, outcome) ==
  /\ frames[t].pc = "scrape"
  /\ LET data == ScrapeResult(tool, OverlapUrl, outcome) IN
     IF Has(data, "error")
     THEN /\ frames' = [frames EXCEPT ![t].pc = "returned", ![t].scraped = @ + 1,
                                      ![t].data = data,
                                      ![t].ret = ErrorResult("full", OverlapUrl, "Failed to scrape website: " \o data.error, frames[t].call)]
          /\ stats' = [stats EXCEPT !.failed_analyses = @ + 1]
     ELSE /\ frames' = [frames EXCEPT ![t].pc = "agents", ![t].scraped = @ + 1,
                                      ![t].data = data]
          /\ UNCHANGED stats
  /\ UNCHANGED <<cache, requests, ncalls, last, overlapfixed>>

\* the classifier and the agents gathered after it are awaited
OverlapAgents(t) ==
  /\ frames[t].pc = "agents"
  /\ frames' = [frames EXCEPT ![t].pc = "store", ![t].agents = @ + 1]
  /\ UNCHANGED <<cache, requests, stats, ncalls, last, overlapfixed>>

\* _aggregate_results, cache.set, successful_analyses and the return
OverlapStore(t) ==
  /\ frames[t].pc = "store"
  /\ LET record == _aggregate_results(OverlapUrl, frames[t].data, OverlapResults, frames[t].call) IN
     /\ cache' = CacheSet(cache, OverlapUrl, record, "full")
     /\ frames' = [frames EXCEPT ![t].pc = "returned", ![t].ret = record]
     /\ last' = [op |-> "store", run |-> t, record |-> record]
  /\ stats' = [stats EXCEPT !.successful_analyses = @ + 1]
  /\ UNCHANGED <<requests, ncalls, overlapfixed>>

\* one second passes: the entries and the timestamps age and the sleeps
\* end.  The event loop runs every ready poll before a second has gone by.
OverlapTick ==
  /\ \A t \in OverlapRuns : frames[t].pc # "polling"
  /\ cache' = [k \in DOMAIN cache |-> [cache[k] EXCEPT !.age = Min(ttl, @ + 1)]]
  /\ requests' = [k \in DOMAIN requests |->
                    [i \in DOMAIN requests[k] |-> Min(time_window, requests[k][i] + 1)]]
  /\ frames' = [t \in RunIds |->
                  IF frames[t].pc = "sleeping" THEN [frames[t] EXCEPT !.pc = "polling"]
                  ELSE frames[t]]
  /\ UNCHANGED <<stats, ncalls, last, overlapfixed>>

NextOverlap ==
  \/ \E t \in OverlapRuns : OverlapCall(t)
  \/ \E t \in OverlapRuns : OverlapPoll(t)
  \/ \E t \in OverlapRuns, outcome \in {"ok", "fetch_failed"} : OverlapScrape(t, outcome)
  \/ \E t \in OverlapRuns : OverlapAgents(t)
  \/ \E t \in OverlapRuns : OverlapStore(t)
  \/ OverlapTick

SpecOverlap == InitWait /\ [][NextOverlap]_vars

\* a live entry for the url of the overlapping calls
OverlapLive ==
  /\ _generate_key(OverlapUrl, "full") \in DOMAIN cache
  /\ cache[_generate_key(OverlapUrl, "full")].age < ttl

\* C37: a call that looks the cache up while no live record is stored
\* misses, whatever calls for the same url are under way, and a call that
\* missed makes an acquire, a scrape and agent calls of its own before it
\* returns a record it built; the cache holds the record of the call that
\* stored last; and a call that finds it within the TTL returns that record
\* without acquiring, scraping or calling an agent.
C37_Overlap ==
  /\ [](/\ \A t \in OverlapRuns :
             frames[t].pc = "returned"
             => IF frames[t].from = "run"
                THEN /\ frames[t].acquired = 1 /\ frames[t].scraped = 1
                     /\ \/ Has(frames[t].ret, "error") /\ frames[t].agents = 0
                        \/ /\ frames[t].agents = 1
                           /\ frames[t].ret.timestamp = frames[t].call
                ELSE frames[t].acquired = 0 /\ frames[t].scraped = 0 /\ frames[t].agents = 0
        /\ _generate_key(OverlapUrl, "full") \in DOMAIN cache
           => /\ last.op = "store"
              /\ cache[_generate_key(OverlapUrl, "full")].result = last.record)
  /\ [][\A t \in OverlapRuns :
          (ncalls' = ncalls + 1 /\ frames'[t] # frames[t])
          => IF OverlapLive
             THEN /\ frames'[t].pc = "returned" /\ frames'[t].from = "cache"
                  /\ frames'[t].ret = last.record
                  /\ requests' = requests
             ELSE /\ frames'[t].pc = "polling" /\ frames'[t].from = "run"
                  /\ stats'.cache_misses = stats.cache_misses + 1]_vars

\* the first two calls overlapped and both missed; the call that began
\* first stored last, and the third call returned its record from the cache
C37_Witness ==
  \E t, o \in OverlapRuns :
    /\ t # o
    /\ frames[t].pc = "returned" /\ frames[t].from = "cache" /\ frames[t].call = 3
    /\ frames[t].ret.timestamp = 1
    /\ frames[o].pc = "returned" /\ frames[o].from = "run"
    /\ ~Has(frames[o].ret, "error")
    /\ stats.cache_misses = 2 /\ stats.successful_analyses = 2 /\ stats.cache_hits = 1


\* ------------------------------------------------------------------------
\* the request last served was a POST /analyze whose body says
\* use_cache=false and it was answered by the analysis or from a cache
FreshAsked ==
  /\ Has(response, "op") /\ response.op = "analyze" /\ response.pc = "returned"
  /\ response.status \in {200, 500}
  /\ Has(response.body, "use_cache") /\ response.body.use_cache = FALSE

\* C38 as stated: a POST /analyze with use_cache=false is answered by a run
\* of the orchestrator made for it, which looked nothing up in the
\* orchestrator's cache: never by cache_response from the API response
\* cache, also when the same request was answered with a 200 shortly before.
C38_Original ==
  FreshAsked
  => /\ response.by \in {"handler", "ANALYSIS_ERROR"}
     /\ response.call = ncalls
     /\ ~use_cache
     /\ Has(ret, "error") \/ tstate.scrape = "returned"


\* a request is served in this step, from its arrival to its answer or to
\* the handler's call of the orchestrator
Arrives == tally'.calls = tally.calls + 1

\* C39: an entry enters the API response cache only with a 200 the handler
\* of POST /analyze has just answered, so no entry holds an error; a request
\* that repeats the request answered 400 or 500 just before it is not
\* answered by cache_response; and a DELETE /cache that is let in leaves
\* the API response cache and the orchestrator's cache empty.
C39_StoreOn200 ==
  /\ [](\A k \in DOMAIN api_cache : ~Has(api_cache[k].data, "error"))
  /\ [][/\ (\E k \in DOMAIN api_cache' :
              \/ k \notin DOMAIN api_cache
              \/ api_cache'[k].data # api_cache[k].data
              \/ api_cache'[k].age < api_cache[k].age)
           => /\ response.pc = "handler" /\ response'.pc = "returned"
              /\ response'.op = "analyze"
              /\ response'.status = 200 /\ response'.by = "handler"
        /\ (/\ Arrives /\ response'.op = "analyze"
            /\ Has(response, "op") /\ response.op = "analyze"
            /\ response.status \in {400, 500}
            /\ response'.body = response.body /\ response'.api_key = response.api_key)
           => response'.by # "cache_response"
        /\ (Arrives /\ response'.op = "clear_cache" /\ response'.status = 200)
           => (api_cache' = EmptyDict /\ cache' = EmptyDict)]_vars

\* the analysis of the first request failed and was answered 500, and the
\* same request, sent again, has passed cache_response and is in the handler
C39_Witness ==
  /\ Serving /\ response.op = "analyze" /\ response.seq = 2
  /\ ncalls = 1 /\ response.call = 2
  /\ pc = "done" /\ Has(ret, "error") /\ stats.failed_analyses = 1
  /\ kind = Get(response.body, "analysis_depth", "full")
  /\ use_cache = Get(response.body, "use_cache", TRUE)
  /\ api_cache = EmptyDict

\* both caches held a record and a DELETE /cache emptied them
C39_WitnessClear ==
  /\ Has(response, "op") /\ response.op = "clear_cache" /\ response.status = 200
  /\ stats.successful_analyses = 1
  /\ kind = "full" /\ use_cache
  /\ api_cache = EmptyDict /\ cache = EmptyDict


\* ------------------------------------------------------------------------
\* main.py, analyze_website_cli(url, analysis_type): one run of the command
\* line on an orchestrator it constructs.  MultiAgentOrchestrator's
\* analyze_website and get_quick_analysis run the coroutines of
\* CrewOrchestrator with asyncio.run and use_cache left at True.  `last` is
\* the process: where it is, what it has printed and how it exited.
NoCli(u, analysis_type) ==
  [op |-> "cli", url |-> u, analysis_type |-> analysis_type, pc |-> "call",
   stdout |-> <<>>, exit |-> 0]

\* the key the last print of the function reads
ResultsKey(analysis_type) ==
  IF analysis_type = "quick" THEN "quick_analysis" ELSE "analysis_results"

clifixed == <<tool, cache, requests, stats, ncalls, pc, kind, url, use_cache, agents_config, website_data, results, tasks, tstate, attempts, sleep, ret, prev, disturbed, sec_requests, sec_last_cleanup, mem, now, runs, frames, cm_stats, tally, files, redis, api_cache, response>>

\* the process starts: config.validate_config() raises ValueError when
\* openai_api_key is not set, and the except clause prints and exits 1
CliStart(u, analysis_type, configured) ==
  /\ last = NoOp
  /\ last' = IF configured
             THEN NoCli(u, analysis_type)
             ELSE [NoCli(u, analysis_type) EXCEPT !.pc = "exited", !.exit = 1,
                                                  !.stdout = <<"Analysis failed: ValueError">>]
  /\ UNCHANGED clifixed

\* orchestrator.get_quick_analysis(url) or orchestrator.analyze_website(url)
CliCall ==
  /\ last # NoOp /\ last.pc = "call"
  /\ ncalls = 0
  /\ Call(last.analysis_type, last.url, TRUE, DefaultConfig)

\* the function from `if 'error' in result` on: sys.exit(1) after the error
\* line; otherwise the three lines and the print of result[ResultsKey],
\* whose KeyError the except clause answers with a line and sys.exit(1)
CliReport ==
  /\ last # NoOp /\ last.pc = "call"
  /\ ncalls = 1 /\ pc = "done"
  /\ last' = IF Has(ret, "error")
             THEN [last EXCEPT !.pc = "exited", !.exit = 1,
                               !.stdout = <<"Error: " \o ret.error>>]
             ELSE LET head == <<"Analysis completed for " \o last.url,
                                "Status: " \o ret.status, "Timestamp">>
                  IN IF Has(ret, ResultsKey(last.analysis_type))
                     THEN [last EXCEPT !.pc = "exited", !.exit = 0,
                                       !.stdout = head \o <<"Results", ResultsKey(last.analysis_type)>>]
                     ELSE [last EXCEPT !.pc = "exited", !.exit = 1,
                                       !.stdout = head \o <<"Results",
                                                            "Analysis failed: KeyError " \o ResultsKey(last.analysis_type)>>]
  /\ UNCHANGED clifixed

NextCli ==
  \/ \E u \in Urls, analysis_type \in {"full", "quick"}, configured \in BOOLEAN :
       CliStart(u, analysis_type, configured)
  \/ CliCall
  \/ WaitForSlot
  \/ \E outcome \in ScrapeOutcomes : Scrape(outcome)
  \/ \E r \in Returns("classifier") : Classify(FALSE, r)
  \/ \E t \in Agents : \E r \in Returns(t) : TaskStep(t, FALSE, r)
  \/ GatherDone
  \/ \E r \in Returns("design_advisor") : Design(FALSE, r)
  \/ Finish
  \/ Tick
  \/ CliReport

SpecCli == Init /\ [][NextCli]_vars

\* the process has exited after the orchestrator returned
CliExited == last # NoOp /\ last.op = "cli" /\ last.pc = "exited" /\ ncalls = 1

\* C40 as stated: when the orchestrator has returned a record without a
\* top-level 'error', the command line prints the results and does not take
\* the failure exit; it exits 1 only when the record has a top-level error.
C40_Original ==
  CliExited
  => IF Has(ret, "error")
     THEN last.exit = 1
     ELSE last.exit = 0 /\ Len(last.stdout) = 5

==========================================================================
